---- MODULE Spec2Model ----
(***************************************************************************)
(* Credential cache and single-flight authenticator of the Sunsama MCP     *)
(* HTTP transport (auth/http.ts).                                          *)
(*                                                                         *)
(* Strings are sequences of atoms (an atom is a run of characters that the *)
(* code never splits in the modelled inputs); the empty sequence is both   *)
(* the empty string and undefined, which the code treats alike (falsy).    *)
(* One step of the model is one run of JavaScript to its next suspension:  *)
(* a synchronous run reads one clock value, and every continuation that a  *)
(* settled promise makes runnable runs before the next request, timer or   *)
(* network event (the microtask queue drains first).                       *)
(***************************************************************************)
EXTENDS Integers, Sequences, FiniteSets, TLC

\* ------------------------------------------------------------------ bounds
NumCalls == 3
MaxTime == 4
NumRequests == 2

\* ------------------------------------------------- configuration constants
CLIENT_IDLE_TIMEOUT == 3
CLIENT_MAX_LIFETIME == 4

\* ----------------------------------------------------------------- strings
Undefined == <<>>

StartsWith(s, prefix) == Len(s) >= 1 /\ s[1] = prefix

\* String.prototype.replace(atom, ''): the first occurrence is removed.
RECURSIVE Replace(_, _)
Replace(s, atom) ==
  IF s = <<>> THEN <<>>
  ELSE IF Head(s) = atom THEN Tail(s)
  ELSE <<Head(s)>> \o Replace(Tail(s), atom)

\* String.prototype.indexOf, 1-based; 0 stands for JavaScript's -1.
RECURSIVE IndexOf(_, _)
IndexOf(s, atom) ==
  IF s = <<>> THEN 0
  ELSE IF Head(s) = atom THEN 1
  ELSE LET r == IndexOf(Tail(s), atom) IN IF r = 0 THEN 0 ELSE r + 1

\* Buffer.from(x, 'base64').toString('ascii') on the payloads that occur.
Base64Table ==
  [p \in {"YWxpY2U6cHc=", "dG9rZW46VDE=", "YWxpY2U=", "OnB3",
          "YTpiYw==", "YWI6Yw==", "YTpiOmM="} |->
     CASE p = "YWxpY2U6cHc=" -> <<"alice", ":", "pw">>
       [] p = "dG9rZW46VDE=" -> <<"token", ":", "T1">>
       [] p = "YWxpY2U="     -> <<"alice">>
       [] p = "OnB3"         -> <<":", "pw">>
       [] p = "YTpiYw=="     -> <<"a", ":", "b", "c">>
       [] p = "YWI6Yw=="     -> <<"a", "b", ":", "c">>
       [] p = "YTpiOmM="     -> <<"a", ":", "b", ":", "c">>]

Base64Decode(s) ==
  IF s = <<>> THEN <<>>
  ELSE IF s[1] \in DOMAIN Base64Table THEN Base64Table[s[1]] ELSE <<>>

\* createHash('sha256').update(s).digest('hex'): an injective digest.
Sha256Hex(s) == <<"sha256">> \o s

\* ------------------------------------------------------------ auth/http.ts
ParseError == [ok |-> FALSE, email |-> <<>>, password |-> <<>>]

\* parseBasicAuth without its two checks.
parseBasicAuth_NoChecks(authHeader) ==
  LET credentials == Base64Decode(Replace(authHeader, "Basic "))
      colonIndex == IndexOf(credentials, ":")
  IN [ok |-> TRUE, email |-> SubSeq(credentials, 1, colonIndex - 1),
      password |-> SubSeq(credentials, colonIndex + 1, Len(credentials))]

parseBasicAuth(authHeader) ==
  LET credentials == Base64Decode(Replace(authHeader, "Basic "))
      colonIndex == IndexOf(credentials, ":")
      email == SubSeq(credentials, 1, colonIndex - 1)
      password == SubSeq(credentials, colonIndex + 1, Len(credentials))
  IN IF colonIndex = 0 THEN ParseError
     ELSE IF email = <<>> THEN ParseError
     ELSE [ok |-> TRUE, email |-> email, password |-> password]

parseBearerToken(authHeader) == Replace(authHeader, "Bearer ")

\* validateToken comparing the lengths only.
validateToken_LengthOnly(providedToken, expectedToken) ==
  IF providedToken = <<>> \/ expectedToken = <<>> THEN FALSE
  ELSE Len(providedToken) = Len(expectedToken)

validateToken(providedToken, expectedToken) ==
  IF providedToken = <<>> \/ expectedToken = <<>> THEN FALSE
  ELSE IF Len(providedToken) # Len(expectedToken) THEN FALSE
  ELSE providedToken = expectedToken

\* getCacheKey without the separator between email and password.
getCacheKey_NoSeparator(email, password) == Sha256Hex(email \o password)

getCacheKey(email, password) == Sha256Hex(email \o <<":">> \o password)

getTokenCacheKey(token) == Sha256Hex(<<"token", ":">> \o token)


\* ------------------------------------------------------------------- state
VARIABLES
  env,           \* process.env: MCP_AUTH_TOKEN, SUNSAMA_EMAIL, SUNSAMA_PASSWORD
  clock,         \* Date.now()
  clientCache,   \* Map: cache key -> reference to a SessionData object
  sessions,      \* the SessionData objects, by reference
  authPromises,  \* Map: cache key -> reference to an authentication promise
  promises,      \* the authentication promises with their closures, by reference
  calls,         \* the calls of authenticateHttpRequest
  logoutCalls,   \* per client handle, how often logout() was invoked
  logoutThrew,   \* the client handles whose logout() threw
  clientCleanupTimer,   \* auth/http.ts cleanupTimer: the interval is set
  expectedApiKey,       \* process.env.MCP_API_KEY
  sessionManager,       \* the sessions of the SessionManager, by session id
  sessionCleanupTimer,  \* transports/http.ts cleanupTimer: the interval is set
  http,                 \* the HTTP requests
  shutdownLog,          \* what the shutdown handler has called, in order
  abandoned,            \* the HTTP requests whose caller has gone away
  intervals             \* per cleanup timer, the intervals that are set and not cleared

vars == <<env, clock, clientCache, sessions, authPromises, promises, calls, logoutCalls,
          logoutThrew, clientCleanupTimer, expectedApiKey, sessionManager,
          sessionCleanupTimer, http, shutdownLog, abandoned, intervals>>

\* What a call of authenticateHttpRequest and the completion of a login leave alone.
serverVars == <<clientCleanupTimer, expectedApiKey, sessionManager, sessionCleanupTimer,
                http, shutdownLog, abandoned, intervals>>

Callers == 1 .. NumCalls

\* The HTTP requests that arrive.
Requesters == 1 .. NumRequests

getMcpAuthToken == env.MCP_AUTH_TOKEN

\* The requests handed to authenticateHttpRequest(authHeader, queryToken).
Requests ==
  { [authHeader |-> Undefined,                        queryToken |-> Undefined],
    [authHeader |-> <<"Basic ", "YWxpY2U6cHc=">>,     queryToken |-> Undefined],
    [authHeader |-> <<"Bearer ", "T1">>,              queryToken |-> Undefined],
    [authHeader |-> <<"Bearer ", "bad">>,             queryToken |-> Undefined],
    [authHeader |-> Undefined,                        queryToken |-> <<"T1">>],
    [authHeader |-> <<"Basic ", "YWxpY2U6cHc=">>,     queryToken |-> <<"bad">>] }

\* Basic credentials with the email "token" and the password "T1".
TokenLikeRequests ==
  { [authHeader |-> <<"Basic ", "dG9rZW46VDE=">>,     queryToken |-> Undefined] }

\* An Authorization header of a scheme that is neither Bearer nor Basic.
OtherSchemeRequests ==
  { [authHeader |-> <<"Digest ", "x">>,               queryToken |-> Undefined] }

\* Basic credentials that differ only in where the colon stands (a:bc, ab:c), a
\* password that holds a colon (a:b:c), and the configured token.
CredentialRequests ==
  { [authHeader |-> <<"Basic ", "YTpiYw==">>,         queryToken |-> Undefined],
    [authHeader |-> <<"Basic ", "YWI6Yw==">>,         queryToken |-> Undefined],
    [authHeader |-> <<"Basic ", "YTpiOmM=">>,         queryToken |-> Undefined],
    [authHeader |-> Undefined,                        queryToken |-> <<"T1">>] }

\* Headers that are present and do not parse: Basic credentials without a colon
\* (alice) and with an empty email (:pw), a Bearer header without a token; the
\* second one also beside a valid query token. One well-formed request.
MalformedRequests ==
  { [authHeader |-> <<"Basic ", "YWxpY2U=">>,         queryToken |-> Undefined],
    [authHeader |-> <<"Basic ", "OnB3">>,             queryToken |-> Undefined],
    [authHeader |-> <<"Bearer ">>,                    queryToken |-> Undefined],
    [authHeader |-> <<"Basic ", "OnB3">>,             queryToken |-> <<"T1">>],
    [authHeader |-> <<"Basic ", "YWxpY2U6cHc=">>,     queryToken |-> Undefined] }

NoError == [message |-> "", login |-> 0]
Failure(message) == [message |-> message, login |-> 0]
\* The error a failed SunsamaClient.login throws: one error object per login.
LoginError(id) == [message |-> "login failed", login |-> id]

IdleCall ==
  [pc |-> "idle", authHeader |-> Undefined, queryToken |-> Undefined,
   method |-> "none", cacheKey |-> <<>>, awaiting |-> 0, result |-> 0,
   error |-> NoError, issued |-> 0, joined |-> {}, evicted |-> 0]

\* An HTTP request record before the request has arrived.
IdleHttp ==
  [pc |-> "idle", verb |-> "", sessionId |-> Undefined, isInitialize |-> FALSE,
   apiKey |-> Undefined, wellFormed |-> FALSE, call |-> 0, status |-> 0,
   message |-> "", created |-> Undefined]

Init ==
  /\ env \in [MCP_AUTH_TOKEN : {Undefined, <<"T1">>},
              SUNSAMA_EMAIL : {Undefined, <<"svc">>},
              SUNSAMA_PASSWORD : {<<"svcpw">>}]
  /\ env.MCP_AUTH_TOKEN = Undefined => env.SUNSAMA_EMAIL # Undefined
  /\ clock = 0
  /\ clientCache = <<>>
  /\ sessions = <<>>
  /\ authPromises = <<>>
  /\ promises = <<>>
  /\ calls = [c \in Callers |-> IdleCall]
  /\ logoutCalls = [id \in Callers |-> 0]
  /\ logoutThrew = {}
  /\ clientCleanupTimer = TRUE
  /\ expectedApiKey = Undefined
  /\ sessionManager = <<>>
  /\ sessionCleanupTimer = TRUE
  /\ http = [c \in Requesters |-> IdleHttp]
  /\ shutdownLog = <<>>
  /\ abandoned = {}
  /\ intervals = [client |-> 1, session |-> 1]

\* Map.prototype.set and Map.prototype.delete
MapSet(map, key, value) == (key :> value) @@ map
MapDelete(map, key) == [k \in DOMAIN map \ {key} |-> map[k]]

\* isClientValid with <= for <.
isClientValid_Inclusive(sessionData) ==
  LET now == clock
      idleTime == now - sessionData.lastAccessedAt
      lifetime == now - sessionData.createdAt
  IN idleTime <= CLIENT_IDLE_TIMEOUT /\ lifetime <= CLIENT_MAX_LIFETIME

\* isClientValid without the lifetime test.
isClientValid_IdleOnly(sessionData) ==
  LET now == clock
      idleTime == now - sessionData.lastAccessedAt
  IN idleTime < CLIENT_IDLE_TIMEOUT

isClientValid(sessionData) ==
  LET now == clock
      idleTime == now - sessionData.lastAccessedAt
      lifetime == now - sessionData.createdAt
  IN idleTime < CLIENT_IDLE_TIMEOUT /\ lifetime < CLIENT_MAX_LIFETIME

\* A continuation of a settled promise is runnable: it runs before anything else.
\* The authentications in flight for a key (history used to state the claims).
InFlight(cacheKey) ==
  {i \in DOMAIN promises :
     promises[i].state = "pending" /\ promises[i].cacheKey = cacheKey}

\* A call record as its run begins: pc, awaiting, result and error are the call's
\* position and outcome; the other fields record what it was given and what it
\* did (joined: the logins in flight for its key when it began; issued: the login
\* it started; evicted: the cached client it logged out and removed).
Started(c, req, method, cacheKey) ==
  [IdleCall EXCEPT !.authHeader = req.authHeader, !.queryToken = req.queryToken,
                   !.method = method, !.cacheKey = cacheKey,
                   !.joined = InFlight(cacheKey)]


\* ---------------------------------------------- steps of a synchronous run
\* The call throws before it touches the caches.
Throw(c, req, method, cacheKey, message) ==
  /\ calls' = [calls EXCEPT ![c] =
       [Started(c, req, method, cacheKey) EXCEPT !.pc = "done",
                                                  !.error = Failure(message)]]
  /\ UNCHANGED <<clientCache, sessions, authPromises, promises, logoutCalls,
                 logoutThrew>>

\* return await authPromises.get(cacheKey): the call waits for the stored promise.
\* A stored promise that is already rejected rejects the call in the same run.
AwaitPending(c, req, method, cacheKey) ==
  LET id == authPromises[cacheKey] IN
  /\ calls' = [calls EXCEPT ![c] =
       IF promises[id].state = "pending"
       THEN [Started(c, req, method, cacheKey) EXCEPT !.pc = "awaiting",
                                                       !.awaiting = id]
       ELSE [Started(c, req, method, cacheKey) EXCEPT !.pc = "done",
                                                       !.awaiting = id,
                                                       !.error = LoginError(id)]]
  /\ UNCHANGED <<clientCache, sessions, authPromises, promises, logoutCalls,
                 logoutThrew>>

\* The sliding-window update also moving createdAt.
Touch_ResetsCreatedAt(sessionData, now, authMethod) ==
  [sessionData EXCEPT !.lastAccessedAt = now, !.createdAt = now,
                      !.authMethod = authMethod]

\* cached.lastAccessedAt = now; cached.authMethod = authMethod
Touch(sessionData, now, authMethod) ==
  [sessionData EXCEPT !.lastAccessedAt = now, !.authMethod = authMethod]

\* The cached client is valid: sliding-window update and return.
ReuseCached(c, req, method, cacheKey, now) ==
  LET cached == clientCache[cacheKey] IN
  /\ sessions' = [sessions EXCEPT ![cached] = Touch(sessions[cached], now, method)]
  /\ calls' = [calls EXCEPT ![c] =
       [Started(c, req, method, cacheKey) EXCEPT !.pc = "done", !.result = cached,
                                                  !.awaiting = 0]]
  /\ UNCHANGED <<clientCache, authPromises, promises, logoutCalls, logoutThrew>>

\* The try statement without its catch clause.
TryLogout_NoCatch(logoutThrows) == ~logoutThrows

\* try { sessionData.sunsamaClient.logout(); } catch (err) { console.error(...); }
\* Whether the run reaches the statement after the try statement.
TryLogout(logoutThrows) == TRUE

\* Lazy expiry: cached.sunsamaClient.logout() in try/catch, clientCache.delete.
\* With no entry under the key, nothing happens.
CacheAfterLazyExpiry(cacheKey, logoutThrows) ==
  IF cacheKey \in DOMAIN clientCache /\ TryLogout(logoutThrows)
  THEN MapDelete(clientCache, cacheKey)
  ELSE clientCache

ThrewAfterLazyExpiry(cacheKey, logoutThrows) ==
  IF cacheKey \in DOMAIN clientCache /\ logoutThrows
  THEN logoutThrew \cup {clientCache[cacheKey]}
  ELSE logoutThrew

\* The lazy expiry without the call of logout.
LogoutsAfterLazyExpiry_NoLogout(cacheKey) == logoutCalls

\* cached.sunsamaClient.logout() of the lazy expiry, counted per client handle.
LogoutsAfterLazyExpiry(cacheKey) ==
  IF cacheKey \in DOMAIN clientCache
  THEN [logoutCalls EXCEPT ![clientCache[cacheKey]] = @ + 1]
  ELSE logoutCalls

LazilyExpired(cacheKey) ==
  IF cacheKey \in DOMAIN clientCache THEN clientCache[cacheKey] ELSE 0

\* The promise of the async function that logs in, with what its closure holds.
AuthPromise(state, cacheKey, email, password, now, authMethod) ==
  [state |-> state, cacheKey |-> cacheKey, email |-> email, password |-> password,
   now |-> now, authMethod |-> authMethod]

\* A settled promise: its closure is released.
Settled(authPromise, state) ==
  [authPromise EXCEPT !.state = state, !.email = <<>>, !.password = <<>>,
                      !.now = 0, !.authMethod = "none"]

\* The async function is called: new SunsamaClient() and login(email, password)
\* run at once. When they suspend, the promise is pending and is stored. When
\* they throw before suspending, the finally block deletes the key first (it is
\* not stored yet), the rejected promise is stored after it, and the call
\* rejects with the error.
CreateClient(c, req, method, cacheKey, email, password, now, throwsAtOnce) ==
  LET id == Len(promises) + 1
      authPromise == AuthPromise("pending", cacheKey, email, password, now, method)
      afterFinally == IF throwsAtOnce
                      THEN MapDelete(authPromises, cacheKey)
                      ELSE authPromises
  IN
  /\ \E logoutThrows \in BOOLEAN :
       /\ clientCache' = CacheAfterLazyExpiry(cacheKey, logoutThrows)
       /\ logoutThrew' = ThrewAfterLazyExpiry(cacheKey, logoutThrows)
  /\ logoutCalls' = LogoutsAfterLazyExpiry(cacheKey)
  /\ promises' = Append(promises, IF throwsAtOnce THEN Settled(authPromise, "rejected")
                                  ELSE authPromise)
  /\ authPromises' = MapSet(afterFinally, cacheKey, id)
  /\ calls' = [calls EXCEPT ![c] =
       IF throwsAtOnce
       THEN [Started(c, req, method, cacheKey) EXCEPT !.pc = "done", !.awaiting = id,
                                                       !.issued = id,
                                                       !.evicted = LazilyExpired(cacheKey),
                                                       !.error = LoginError(id)]
       ELSE [Started(c, req, method, cacheKey) EXCEPT !.pc = "awaiting",
                                                       !.awaiting = id, !.issued = id,
                                                       !.evicted = LazilyExpired(cacheKey)]]
  /\ UNCHANGED sessions

\* The token path throws after the lazy expiry: the service credentials are unset.
ThrowAfterLazyExpiry(c, req, method, cacheKey, message) ==
  /\ \E logoutThrows \in BOOLEAN :
       /\ clientCache' = CacheAfterLazyExpiry(cacheKey, logoutThrows)
       /\ logoutThrew' = ThrewAfterLazyExpiry(cacheKey, logoutThrows)
  /\ logoutCalls' = LogoutsAfterLazyExpiry(cacheKey)
  /\ calls' = [calls EXCEPT ![c] =
       [Started(c, req, method, cacheKey) EXCEPT !.pc = "done",
                                                  !.evicted = LazilyExpired(cacheKey),
                                                  !.error = Failure(message)]]
  /\ UNCHANGED <<sessions, authPromises, promises>>

HasValidCached(cacheKey) ==
  /\ cacheKey \in DOMAIN clientCache
  /\ isClientValid(sessions[clientCache[cacheKey]])

\* authenticateWithToken without the check for a pending authentication.
authenticateWithToken_NoPendingCheck(c, req, providedToken, authMethod, throwsAtOnce) ==
  LET expectedToken == getMcpAuthToken
      cacheKey == getTokenCacheKey(providedToken)
      now == clock
      email == env.SUNSAMA_EMAIL
      password == env.SUNSAMA_PASSWORD
  IN
  IF expectedToken = <<>>
  THEN Throw(c, req, authMethod, <<>>, "MCP_AUTH_TOKEN not configured on server")
  ELSE IF ~validateToken(providedToken, expectedToken)
  THEN Throw(c, req, authMethod, <<>>, "Invalid authentication token")
  ELSE IF HasValidCached(cacheKey)
  THEN ReuseCached(c, req, authMethod, cacheKey, now)
  ELSE IF email = <<>> \/ password = <<>>
  THEN ThrowAfterLazyExpiry(c, req, authMethod, cacheKey,
         "SUNSAMA_EMAIL and SUNSAMA_PASSWORD must be set when using token authentication")
  ELSE CreateClient(c, req, authMethod, cacheKey, email, password, now, throwsAtOnce)

authenticateWithToken(c, req, providedToken, authMethod, throwsAtOnce) ==
  LET expectedToken == getMcpAuthToken
      cacheKey == getTokenCacheKey(providedToken)
      now == clock
      email == env.SUNSAMA_EMAIL
      password == env.SUNSAMA_PASSWORD
  IN
  IF expectedToken = <<>>
  THEN Throw(c, req, authMethod, <<>>, "MCP_AUTH_TOKEN not configured on server")
  ELSE IF ~validateToken(providedToken, expectedToken)
  THEN Throw(c, req, authMethod, <<>>, "Invalid authentication token")
  ELSE IF cacheKey \in DOMAIN authPromises
  THEN AwaitPending(c, req, authMethod, cacheKey)
  ELSE IF HasValidCached(cacheKey)
  THEN ReuseCached(c, req, authMethod, cacheKey, now)
  ELSE IF email = <<>> \/ password = <<>>
  THEN ThrowAfterLazyExpiry(c, req, authMethod, cacheKey,
         "SUNSAMA_EMAIL and SUNSAMA_PASSWORD must be set when using token authentication")
  ELSE CreateClient(c, req, authMethod, cacheKey, email, password, now, throwsAtOnce)

\* The Basic Auth path without the check for a pending authentication.
authenticateWithBasic_NoPendingCheck(c, req, throwsAtOnce) ==
  LET parsed == parseBasicAuth(req.authHeader)
      cacheKey == getCacheKey(parsed.email, parsed.password)
      now == clock
  IN
  IF ~parsed.ok
  THEN Throw(c, req, "basic", <<>>, "Invalid Basic Auth format")
  ELSE IF HasValidCached(cacheKey)
  THEN ReuseCached(c, req, "basic", cacheKey, now)
  ELSE CreateClient(c, req, "basic", cacheKey, parsed.email, parsed.password, now,
                    throwsAtOnce)

\* The Basic Auth path waiting for whichever authentication is pending.
authenticateWithBasic_AwaitsAnyPending(c, req, throwsAtOnce) ==
  LET parsed == parseBasicAuth(req.authHeader)
      cacheKey == getCacheKey(parsed.email, parsed.password)
      now == clock
  IN
  IF ~parsed.ok
  THEN Throw(c, req, "basic", <<>>, "Invalid Basic Auth format")
  ELSE IF DOMAIN authPromises # {}
  THEN /\ calls' = [calls EXCEPT ![c] =
            [Started(c, req, "basic", cacheKey) EXCEPT
               !.pc = "awaiting",
               !.awaiting = authPromises[CHOOSE k \in DOMAIN authPromises : TRUE]]]
       /\ UNCHANGED <<clientCache, sessions, authPromises, promises, logoutCalls,
                      logoutThrew>>
  ELSE IF HasValidCached(cacheKey)
  THEN ReuseCached(c, req, "basic", cacheKey, now)
  ELSE CreateClient(c, req, "basic", cacheKey, parsed.email, parsed.password, now,
                    throwsAtOnce)

authenticateWithBasic(c, req, throwsAtOnce) ==
  LET parsed == parseBasicAuth(req.authHeader)
      cacheKey == getCacheKey(parsed.email, parsed.password)
      now == clock
  IN
  IF ~parsed.ok
  THEN Throw(c, req, "basic", <<>>, "Invalid Basic Auth format")
  ELSE IF cacheKey \in DOMAIN authPromises
  THEN AwaitPending(c, req, "basic", cacheKey)
  ELSE IF HasValidCached(cacheKey)
  THEN ReuseCached(c, req, "basic", cacheKey, now)
  ELSE CreateClient(c, req, "basic", cacheKey, parsed.email, parsed.password, now,
                    throwsAtOnce)

\* The branches with Basic Auth tried first.
AuthBranch_BasicFirst(mcpAuthToken, authHeader, queryToken) ==
  IF StartsWith(authHeader, "Basic ") THEN "basic"
  ELSE IF mcpAuthToken # <<>> /\ queryToken # <<>> THEN "query"
  ELSE IF mcpAuthToken # <<>> /\ StartsWith(authHeader, "Bearer ") THEN "bearer"
  ELSE IF mcpAuthToken # <<>> /\ authHeader = <<>> THEN "authentication required"
  ELSE "basic auth required"

\* The branches without the test that MCP_AUTH_TOKEN is configured.
AuthBranch_IgnoresConfig(mcpAuthToken, authHeader, queryToken) ==
  IF queryToken # <<>> THEN "query"
  ELSE IF StartsWith(authHeader, "Bearer ") THEN "bearer"
  ELSE IF ~StartsWith(authHeader, "Basic ") /\ authHeader = <<>>
  THEN "authentication required"
  ELSE IF authHeader = <<>> \/ ~StartsWith(authHeader, "Basic ")
  THEN "basic auth required"
  ELSE "basic"

\* The branch authenticateHttpRequest takes for a request.
AuthBranch(mcpAuthToken, authHeader, queryToken) ==
  IF mcpAuthToken # <<>> /\ queryToken # <<>> THEN "query"
  ELSE IF mcpAuthToken # <<>> /\ StartsWith(authHeader, "Bearer ") THEN "bearer"
  ELSE IF mcpAuthToken # <<>> /\ ~StartsWith(authHeader, "Basic ") /\ authHeader = <<>>
  THEN "authentication required"
  ELSE IF authHeader = <<>> \/ ~StartsWith(authHeader, "Basic ")
  THEN "basic auth required"
  ELSE "basic"

\* ----------------------------------------------------------------- actions
authenticateHttpRequest(c, req, throwsAtOnce) ==
  LET branch == AuthBranch(getMcpAuthToken, req.authHeader, req.queryToken) IN
  /\ calls[c].pc = "idle"
  /\ \A b \in Callers : b < c => calls[b].pc # "idle"
  /\ CASE branch = "query" ->
            authenticateWithToken(c, req, req.queryToken, "query", throwsAtOnce)
       [] branch = "bearer" ->
            IF parseBearerToken(req.authHeader) = <<>>
            THEN Throw(c, req, "bearer", <<>>, "Invalid Bearer token format")
            ELSE authenticateWithToken(c, req, parseBearerToken(req.authHeader),
                                       "bearer", throwsAtOnce)
       [] branch = "authentication required" ->
            Throw(c, req, "none", <<>>,
                  "Authentication required: provide token in query parameter (?token=xxx), Bearer header, or Basic Auth")
       [] branch = "basic auth required" ->
            Throw(c, req, "none", <<>>, "Basic Auth required")
       [] branch = "basic" ->
            authenticateWithBasic(c, req, throwsAtOnce)
  /\ UNCHANGED <<env, clock>>

\* SessionData with createdAt read from the clock when the login has completed.
NewSessionData_CompletionTime(id, authPromise) ==
  [sunsamaClient |-> id, email |-> authPromise.email,
   createdAt |-> clock, lastAccessedAt |-> authPromise.now,
   authMethod |-> authPromise.authMethod]

NewSessionData(id, authPromise) ==
  [sunsamaClient |-> id, email |-> authPromise.email,
   createdAt |-> authPromise.now, lastAccessedAt |-> authPromise.now,
   authMethod |-> authPromise.authMethod]

\* Every call that awaits promise id returns its outcome.
Settle(id, state) ==
  [c \in Callers |->
     IF calls[c].pc = "awaiting" /\ calls[c].awaiting = id
     THEN IF state = "fulfilled"
          THEN [calls[c] EXCEPT !.pc = "done", !.result = id]
          ELSE [calls[c] EXCEPT !.pc = "done", !.error = LoginError(id)]
     ELSE calls[c]]

\* LoginResolves without clientCache.set.
LoginResolves_NoCacheSet(id) ==
  /\ id \in DOMAIN promises
  /\ promises[id].state = "pending"
  /\ sessions' = MapSet(sessions, id, NewSessionData(id, promises[id]))
  /\ authPromises' = MapDelete(authPromises, promises[id].cacheKey)
  /\ promises' = [promises EXCEPT ![id] = Settled(@, "fulfilled")]
  /\ calls' = Settle(id, "fulfilled")
  /\ UNCHANGED <<env, clock, clientCache, logoutCalls, logoutThrew>>

\* LoginResolves without the finally block.
LoginResolves_NoFinally(id) ==
  /\ id \in DOMAIN promises
  /\ promises[id].state = "pending"
  /\ sessions' = MapSet(sessions, id, NewSessionData(id, promises[id]))
  /\ clientCache' = MapSet(clientCache, promises[id].cacheKey, id)
  /\ promises' = [promises EXCEPT ![id] = Settled(@, "fulfilled")]
  /\ calls' = Settle(id, "fulfilled")
  /\ UNCHANGED <<env, clock, authPromises, logoutCalls, logoutThrew>>

\* The login of promise id succeeds: the rest of the async function runs, then
\* the calls that await the promise.
LoginResolves(id) ==
  /\ id \in DOMAIN promises
  /\ promises[id].state = "pending"
  /\ sessions' = MapSet(sessions, id, NewSessionData(id, promises[id]))
  /\ clientCache' = MapSet(clientCache, promises[id].cacheKey, id)
  /\ authPromises' = MapDelete(authPromises, promises[id].cacheKey)
  /\ promises' = [promises EXCEPT ![id] = Settled(@, "fulfilled")]
  /\ calls' = Settle(id, "fulfilled")
  /\ UNCHANGED <<env, clock, logoutCalls, logoutThrew>>

\* The login of promise id fails after it suspended: only the finally block
\* runs, then the calls that await the promise.
LoginRejects(id) ==
  /\ id \in DOMAIN promises
  /\ promises[id].state = "pending"
  /\ authPromises' = MapDelete(authPromises, promises[id].cacheKey)
  /\ promises' = [promises EXCEPT ![id] = Settled(@, "rejected")]
  /\ calls' = Settle(id, "rejected")
  /\ UNCHANGED <<env, clock, clientCache, sessions, logoutCalls, logoutThrew>>

\* The start function without the test for a timer that is set already.
StartTimer_NoGuard(cleanupTimer, set) == [cleanupTimer |-> TRUE, set |-> set + 1]

\* if (cleanupTimer) return; cleanupTimer = setInterval(...): the variable
\* (whether it holds a timer) and the number of intervals that are set.
StartTimer(cleanupTimer, set) ==
  IF cleanupTimer THEN [cleanupTimer |-> cleanupTimer, set |-> set]
  ELSE [cleanupTimer |-> TRUE, set |-> set + 1]

\* if (cleanupTimer) { clearInterval(cleanupTimer); cleanupTimer = null; }
StopTimer(cleanupTimer, set) ==
  IF cleanupTimer THEN [cleanupTimer |-> FALSE, set |-> set - 1]
  ELSE [cleanupTimer |-> cleanupTimer, set |-> set]

\* The interval timer fires. The loop logs out and deletes every expired entry.
cleanupExpiredClients ==
  LET expired == {cacheKey \in DOMAIN clientCache :
                    ~isClientValid(sessions[clientCache[cacheKey]])}
      loggedOut == {clientCache[cacheKey] : cacheKey \in expired}
  IN
  /\ intervals.client > 0
  /\ \E throwing \in SUBSET expired :
       LET deleted == {cacheKey \in expired : TryLogout(cacheKey \in throwing)} IN
       /\ clientCache' = [cacheKey \in DOMAIN clientCache \ deleted |-> clientCache[cacheKey]]
       /\ logoutThrew' = logoutThrew \cup {clientCache[cacheKey] : cacheKey \in throwing}
  /\ logoutCalls' = [id \in DOMAIN logoutCalls |->
                       IF id \in loggedOut THEN logoutCalls[id] + 1 ELSE logoutCalls[id]]
  /\ UNCHANGED <<env, clock, sessions, authPromises, promises, calls>>
  /\ UNCHANGED serverVars

\* Time passes between two runs. With nothing cached and no login in flight no
\* timestamp is held, and the passing of time changes nothing.
Tick ==
  /\ clock < MaxTime
  /\ DOMAIN clientCache # {} \/ \E id \in DOMAIN promises : promises[id].state = "pending"
  /\ clock' = clock + 1
  /\ UNCHANGED <<env, clientCache, sessions, authPromises, promises, calls, logoutCalls,
                 logoutThrew>>
  /\ UNCHANGED serverVars

Next ==
  \/ \E c \in Callers, req \in Requests, throwsAtOnce \in BOOLEAN :
       authenticateHttpRequest(c, req, throwsAtOnce) /\ UNCHANGED serverVars
  \/ \E id \in Callers : LoginResolves(id) /\ UNCHANGED serverVars
  \/ \E id \in Callers : LoginRejects(id) /\ UNCHANGED serverVars
  \/ cleanupExpiredClients
  \/ Tick

Spec == Init /\ [][Next]_vars

\* The same program with clients that also send the token-like Basic credentials.
NextTokenLike ==
  \/ \E c \in Callers, req \in Requests \cup TokenLikeRequests, throwsAtOnce \in BOOLEAN :
       authenticateHttpRequest(c, req, throwsAtOnce) /\ UNCHANGED serverVars
  \/ \E id \in Callers : LoginResolves(id) /\ UNCHANGED serverVars
  \/ \E id \in Callers : LoginRejects(id) /\ UNCHANGED serverVars
  \/ cleanupExpiredClients
  \/ Tick

SpecTokenLike == Init /\ [][NextTokenLike]_vars

\* The same program with clients that also send a header of another scheme.
NextOtherScheme ==
  \/ \E c \in Callers, req \in Requests \cup OtherSchemeRequests, throwsAtOnce \in BOOLEAN :
       authenticateHttpRequest(c, req, throwsAtOnce) /\ UNCHANGED serverVars
  \/ \E id \in Callers : LoginResolves(id) /\ UNCHANGED serverVars
  \/ \E id \in Callers : LoginRejects(id) /\ UNCHANGED serverVars
  \/ cleanupExpiredClients
  \/ Tick

SpecOtherScheme == Init /\ [][NextOtherScheme]_vars

\* The same program with clients whose credentials are close to one another.
NextCredentials ==
  \/ \E c \in Callers, req \in CredentialRequests, throwsAtOnce \in BOOLEAN :
       authenticateHttpRequest(c, req, throwsAtOnce) /\ UNCHANGED serverVars
  \/ \E id \in Callers : LoginResolves(id) /\ UNCHANGED serverVars
  \/ \E id \in Callers : LoginRejects(id) /\ UNCHANGED serverVars
  \/ cleanupExpiredClients
  \/ Tick

\* The same program with clients that also send headers that do not parse.
NextMalformed ==
  \/ \E c \in Callers, req \in MalformedRequests, throwsAtOnce \in BOOLEAN :
       authenticateHttpRequest(c, req, throwsAtOnce) /\ UNCHANGED serverVars
  \/ \E id \in Callers : LoginResolves(id) /\ UNCHANGED serverVars
  \/ \E id \in Callers : LoginRejects(id) /\ UNCHANGED serverVars
  \/ cleanupExpiredClients
  \/ Tick

SpecMalformed == Init /\ [][NextMalformed]_vars

\* The shared secret and the service credentials are configured.
InitCredentials ==
  /\ Init
  /\ env.MCP_AUTH_TOKEN = <<"T1">>
  /\ env.SUNSAMA_EMAIL = <<"svc">>

SpecCredentials == InitCredentials /\ [][NextCredentials]_vars


\* ----------------------------------------------------- transports/http.ts
K1 == <<"K1">>

\* sessionIdGenerator: () => randomUUID(), for the transport of request c.
randomUUID(c) == <<"uuid", c>>

\* A session id that no transport has generated.
ForgedSessionId == <<"forged">>

\* sessionData = { method: "api-key", subject: "api-key-client" } as SessionData
ApiKeySessionData == [ref |-> 0, method |-> "api-key", subject |-> "api-key-client"]

\* A reference to the SessionData object that authenticateHttpRequest returned.
SessionDataRef(id) == [ref |-> id, method |-> "", subject |-> ""]

\* SessionManager
hasSession(sessionId) == sessionId \in DOMAIN sessionManager

getSession(sessionId) == sessionManager[sessionId]

createSession(sessionId, transport, sessionData) ==
  MapSet(sessionManager, sessionId, [transport |-> transport, sessionData |-> sessionData])

removeSession(sessionId) == MapDelete(sessionManager, sessionId)

getSessionCount == Cardinality(DOMAIN sessionManager)

\* cleanupAll: every transport is closed and the map is cleared.
cleanupAll == <<>>

\* createApiKeyMiddleware: the response it sends, or next().
CallsNext == [status |-> 0, message |-> "next"]

Response(status, message) == [status |-> status, message |-> message]

apiKeyMiddleware(request) ==
  IF expectedApiKey = Undefined THEN CallsNext
  ELSE IF request.apiKey = Undefined
  THEN Response(401, "API key required (X-MCP-API-Key)")
  ELSE IF request.apiKey # expectedApiKey THEN Response(403, "Invalid API key")
  ELSE CallsNext

\* The request record once the handler has sent its response.
Responded(verb, request, call, response, created) ==
  [pc |-> "done", verb |-> verb, sessionId |-> request.sessionId,
   isInitialize |-> request.isInitialize, apiKey |-> request.apiKey,
   wellFormed |-> request.wellFormed, call |-> call,
   status |-> response.status, message |-> response.message, created |-> created]

\* The record of a POST that waits for authenticateHttpRequest.
Awaiting(verb, request, call) ==
  [Responded(verb, request, call, Response(0, ""), Undefined) EXCEPT !.pc = "awaiting"]

\* transport.handleRequest: the SDK's answer to a request it accepts or rejects.
Handled(request) ==
  IF request.wellFormed THEN Response(200, "handled by the transport")
  ELSE Response(400, "rejected by the transport")

AuthenticationFailed == Response(401, "Authentication failed")

\* The answer to an unknown session id being that of a failed authentication.
SessionExpiredOrInvalid_AsAuthFailure == Response(401, "Authentication failed")

SessionExpiredOrInvalid == Response(404, "Session expired or invalid")

NoValidSessionId == Response(400, "Bad Request: No valid session ID provided")

InvalidOrMissingSessionId == Response(400, "Invalid or missing session ID")


\* What the handlers of transports/http.ts leave alone when they do not call
\* authenticateHttpRequest.
authVars == <<env, clock, clientCache, sessions, authPromises, promises, calls,
              logoutCalls, logoutThrew>>

\* The session ids a client can send: none, one it made up, one it was given.
SuppliedSessionIds ==
  {Undefined, ForgedSessionId} \cup
  {http[c].created : c \in {b \in Requesters : http[b].created # Undefined}}

\* The X-MCP-API-Key header of a client that holds the key.
ApiKeyHeld == expectedApiKey

\* The header of a client that does not: absent, or another key.
ApiKeysNotHeld == IF expectedApiKey = Undefined THEN {} ELSE {Undefined, <<"K0">>}

BasicAlice == <<"Basic ", "YWxpY2U6cHc=">>

AuthHeaders == {Undefined, BasicAlice, <<"Bearer ", "T1">>}

HttpRequest(sessionId, isInitialize, apiKey, authHeader, wellFormed) ==
  [sessionId |-> sessionId, isInitialize |-> isInitialize, apiKey |-> apiKey,
   authHeader |-> authHeader, wellFormed |-> wellFormed]

\* Initialize requests (one of them malformed for the transport, some without
\* the API key), an initialize request under a made-up session id, requests
\* that name a session, and a request that is neither.
PostRequests ==
  {HttpRequest(Undefined, TRUE, ApiKeyHeld, authHeader, TRUE) : authHeader \in AuthHeaders}
  \cup
  {HttpRequest(Undefined, TRUE, ApiKeyHeld, BasicAlice, FALSE)}
  \cup
  {HttpRequest(Undefined, TRUE, apiKey, BasicAlice, TRUE) : apiKey \in ApiKeysNotHeld}
  \cup
  {HttpRequest(ForgedSessionId, TRUE, ApiKeyHeld, BasicAlice, TRUE)}
  \cup
  {HttpRequest(sessionId, FALSE, ApiKeyHeld, BasicAlice, TRUE) :
     sessionId \in SuppliedSessionIds \ {Undefined}}
  \cup
  {HttpRequest(Undefined, FALSE, ApiKeyHeld, BasicAlice, TRUE)}
  \cup
  {HttpRequest(ForgedSessionId, FALSE, apiKey, BasicAlice, TRUE) : apiKey \in ApiKeysNotHeld}

GetRequests ==
  {HttpRequest(sessionId, FALSE, ApiKeyHeld, Undefined, TRUE) :
     sessionId \in SuppliedSessionIds \ {Undefined}}
  \cup
  {HttpRequest(ForgedSessionId, FALSE, apiKey, Undefined, TRUE) : apiKey \in ApiKeysNotHeld}

DeleteRequests == GetRequests

\* The rest of the new-initialize branch once sessionData is known: the transport
\* is created and connected, and transport.handleRequest answers the request; for
\* an initialize request it accepts, the transport generates the session id and
\* calls onsessioninitialized, which calls sessionManager.createSession.
Initialized(c, request, call) ==
  Responded("POST", request, call, Handled(request),
            IF request.wellFormed THEN randomUUID(c) ELSE Undefined)

SessionsAfterInitialize(c, request, sessionData) ==
  IF request.wellFormed THEN createSession(randomUUID(c), c, sessionData)
  ELSE sessionManager

\* The branches with the initialize test not asking for an absent session id.
PostBranch_InitializeFirst(sessionId, held, isInitialize) ==
  IF sessionId # Undefined /\ held THEN "reuse"
  ELSE IF isInitialize THEN "initialize"
  ELSE IF sessionId # Undefined /\ ~held THEN "not found"
  ELSE "bad request"

\* The branch the POST handler takes; held is sessionManager.hasSession(sessionId).
PostBranch(sessionId, held, isInitialize) ==
  IF sessionId # Undefined /\ held THEN "reuse"
  ELSE IF sessionId # Undefined /\ ~held THEN "not found"
  ELSE IF sessionId = Undefined /\ isInitialize THEN "initialize"
  ELSE "bad request"

\* app.post(endpoint): the handler up to its response or to its first suspension.
Post(c, request, throwsAtOnce) ==
  LET gate == apiKeyMiddleware(request)
      sessionId == request.sessionId
      expectedKey == expectedApiKey
      branch == PostBranch(sessionId, hasSession(sessionId), request.isInitialize)
  IN
  /\ http[c].pc = "idle"
  /\ \A b \in Requesters : b < c => http[b].pc # "idle"
  /\ IF gate # CallsNext
     THEN /\ http' = [http EXCEPT ![c] = Responded("POST", request, 0, gate, Undefined)]
          /\ UNCHANGED <<sessionManager, authVars>>
     ELSE IF branch = "reuse"
     THEN /\ http' = [http EXCEPT ![c] =
               Responded("POST", request, 0, Handled(request), Undefined)]
          /\ UNCHANGED <<sessionManager, authVars>>
     ELSE IF branch = "not found"
     THEN /\ http' = [http EXCEPT ![c] =
               Responded("POST", request, 0, SessionExpiredOrInvalid, Undefined)]
          /\ UNCHANGED <<sessionManager, authVars>>
     ELSE IF branch = "initialize"
     THEN IF expectedKey # Undefined /\ request.apiKey = expectedKey
          THEN /\ http' = [http EXCEPT ![c] = Initialized(c, request, 0)]
               /\ sessionManager' = SessionsAfterInitialize(c, request, ApiKeySessionData)
               /\ UNCHANGED authVars
          ELSE \E a \in Callers :
                 /\ authenticateHttpRequest(
                      a, [authHeader |-> request.authHeader, queryToken |-> Undefined],
                      throwsAtOnce)
                 /\ IF calls'[a].pc = "awaiting"
                    THEN /\ http' = [http EXCEPT ![c] = Awaiting("POST", request, a)]
                         /\ UNCHANGED sessionManager
                    ELSE IF calls'[a].result # 0
                    THEN /\ http' = [http EXCEPT ![c] = Initialized(c, request, a)]
                         /\ sessionManager' =
                              SessionsAfterInitialize(c, request,
                                                      SessionDataRef(calls'[a].result))
                    ELSE /\ http' = [http EXCEPT ![c] =
                              Responded("POST", request, a, AuthenticationFailed,
                                        Undefined)]
                         /\ UNCHANGED sessionManager
     ELSE /\ http' = [http EXCEPT ![c] =
               Responded("POST", request, 0, NoValidSessionId, Undefined)]
          /\ UNCHANGED <<sessionManager, authVars>>
  /\ UNCHANGED <<clientCleanupTimer, expectedApiKey, sessionCleanupTimer, shutdownLog,
                 abandoned, intervals>>

\* The POST handlers that wait for the login of promise id run on: each creates
\* its session when the login succeeded, and answers 401 when it failed.
PostsResume(id, state) ==
  LET resumed == {c \in Requesters : /\ http[c].pc = "awaiting"
                                     /\ calls[http[c].call].awaiting = id}
      request(c) == http[c]
      initialized == {c \in resumed : state = "fulfilled" /\ http[c].wellFormed}
  IN
  /\ http' = [c \in Requesters |->
       IF c \notin resumed THEN http[c]
       ELSE IF state = "fulfilled" THEN Initialized(c, request(c), http[c].call)
       ELSE Responded("POST", request(c), http[c].call, AuthenticationFailed, Undefined)]
  /\ sessionManager' =
       [sessionId \in DOMAIN sessionManager \cup {randomUUID(c) : c \in initialized} |->
          IF \E c \in initialized : sessionId = randomUUID(c)
          THEN [transport |-> CHOOSE c \in initialized : sessionId = randomUUID(c),
                sessionData |-> SessionDataRef(id)]
          ELSE sessionManager[sessionId]]
  /\ UNCHANGED <<clientCleanupTimer, expectedApiKey, sessionCleanupTimer, shutdownLog,
                 abandoned, intervals>>


\* app.get(endpoint): the SSE stream of a session.
Get(c, request) ==
  LET gate == apiKeyMiddleware(request)
      sessionId == request.sessionId
  IN
  /\ http[c].pc = "idle"
  /\ \A b \in Requesters : b < c => http[b].pc # "idle"
  /\ http' = [http EXCEPT ![c] =
       IF gate # CallsNext THEN Responded("GET", request, 0, gate, Undefined)
       ELSE IF sessionId = Undefined \/ ~hasSession(sessionId)
       THEN Responded("GET", request, 0, InvalidOrMissingSessionId, Undefined)
       ELSE Responded("GET", request, 0, Handled(request), Undefined)]
  /\ UNCHANGED <<sessionManager, authVars>>
  /\ UNCHANGED <<clientCleanupTimer, expectedApiKey, sessionCleanupTimer, shutdownLog,
                 abandoned, intervals>>

\* The close callback without sessionManager.removeSession.
SessionsAfterClose_NoRemove(request, sid) == sessionManager

\* transport.onclose, called when the transport closes on a DELETE it accepts:
\* sessionManager.removeSession(sid).
SessionsAfterClose(request, sid) ==
  IF request.wellFormed THEN removeSession(sid) ELSE sessionManager

\* app.delete(endpoint): the transport closes the session it is asked to
\* terminate, and its onclose callback calls sessionManager.removeSession.
Delete(c, request) ==
  LET gate == apiKeyMiddleware(request)
      sessionId == request.sessionId
  IN
  /\ http[c].pc = "idle"
  /\ \A b \in Requesters : b < c => http[b].pc # "idle"
  /\ IF gate # CallsNext
     THEN /\ http' = [http EXCEPT ![c] = Responded("DELETE", request, 0, gate, Undefined)]
          /\ UNCHANGED sessionManager
     ELSE IF sessionId = Undefined \/ ~hasSession(sessionId)
     THEN /\ http' = [http EXCEPT ![c] =
               Responded("DELETE", request, 0, InvalidOrMissingSessionId, Undefined)]
          /\ UNCHANGED sessionManager
     ELSE /\ http' = [http EXCEPT ![c] =
               Responded("DELETE", request, 0, Handled(request), Undefined)]
          /\ sessionManager' = SessionsAfterClose(request, sessionId)
  /\ UNCHANGED authVars
  /\ UNCHANGED <<clientCleanupTimer, expectedApiKey, sessionCleanupTimer, shutdownLog,
                 abandoned, intervals>>

\* The session timer fires: sessionManager.cleanupExpired() removes the sessions
\* whose time to live has run out.
cleanupExpired ==
  /\ intervals.session > 0
  /\ \E expired \in SUBSET DOMAIN sessionManager :
       /\ expired # {}
       /\ sessionManager' = [sessionId \in DOMAIN sessionManager \ expired |->
                               sessionManager[sessionId]]
  /\ UNCHANGED authVars
  /\ UNCHANGED <<clientCleanupTimer, expectedApiKey, sessionCleanupTimer, http,
                 shutdownLog, abandoned, intervals>>

\* cleanupAllClients without clientCache.clear().
cleanupAllClients_NoClear ==
  \E throwing \in SUBSET DOMAIN clientCache :
    /\ logoutCalls' = [id \in DOMAIN logoutCalls |->
                         IF \E cacheKey \in DOMAIN clientCache : clientCache[cacheKey] = id
                         THEN logoutCalls[id] + 1
                         ELSE logoutCalls[id]]
    /\ logoutThrew' = logoutThrew \cup {clientCache[cacheKey] : cacheKey \in throwing}
    /\ UNCHANGED clientCache

\* cleanupAllClients: every cached client is logged out, then the cache is cleared.
cleanupAllClients ==
  \E throwing \in SUBSET DOMAIN clientCache :
    /\ logoutCalls' = [id \in DOMAIN logoutCalls |->
                         IF \E cacheKey \in DOMAIN clientCache : clientCache[cacheKey] = id
                         THEN logoutCalls[id] + 1
                         ELSE logoutCalls[id]]
    /\ logoutThrew' = logoutThrew \cup {clientCache[cacheKey] : cacheKey \in throwing}
    /\ clientCache' = IF \A cacheKey \in DOMAIN clientCache :
                            TryLogout(cacheKey \in throwing)
                      THEN <<>>
                      ELSE clientCache

\* The order in which shutdown calls its steps.
ShutdownSteps ==
  <<"stopClientCacheCleanup", "stopSessionCacheCleanup", "sessionManager.cleanupAll",
    "cleanupAllClients", "process.exit">>

\* SIGINT or SIGTERM: the shutdown handler.
shutdown ==
  /\ clientCleanupTimer' = StopTimer(clientCleanupTimer, intervals.client).cleanupTimer
  /\ sessionCleanupTimer' = StopTimer(sessionCleanupTimer, intervals.session).cleanupTimer
  /\ sessionManager' = cleanupAll
  /\ cleanupAllClients
  /\ shutdownLog' = ShutdownSteps
  /\ intervals' = [client |-> StopTimer(clientCleanupTimer, intervals.client).set,
                    session |-> StopTimer(sessionCleanupTimer, intervals.session).set]
  /\ UNCHANGED <<env, clock, sessions, authPromises, promises, calls, expectedApiKey,
                 http, abandoned>>

\* The server after setupHttpTransport: both timers run, no request has arrived.
InitHttp ==
  /\ env \in [MCP_AUTH_TOKEN : {Undefined, <<"T1">>},
              SUNSAMA_EMAIL : {<<"svc">>},
              SUNSAMA_PASSWORD : {<<"svcpw">>}]
  /\ expectedApiKey \in {Undefined, K1}
  /\ expectedApiKey # Undefined => env.MCP_AUTH_TOKEN = Undefined
  /\ clock = 0
  /\ clientCache = <<>>
  /\ sessions = <<>>
  /\ authPromises = <<>>
  /\ promises = <<>>
  /\ calls = [c \in Callers |-> IdleCall]
  /\ logoutCalls = [id \in Callers |-> 0]
  /\ logoutThrew = {}
  /\ clientCleanupTimer = TRUE
  /\ sessionManager = <<>>
  /\ sessionCleanupTimer = TRUE
  /\ http = [c \in Requesters |-> IdleHttp]
  /\ shutdownLog = <<>>
  /\ abandoned = {}
  /\ intervals = [client |-> 1, session |-> 1]

\* process.exit has not been called.
Running == shutdownLog = <<>>

NextHttp ==
  \/ \E c \in Requesters, throwsAtOnce \in BOOLEAN :
       \E request \in PostRequests : Running /\ Post(c, request, throwsAtOnce)
  \/ \E c \in Requesters : \E request \in GetRequests : Running /\ Get(c, request)
  \/ \E c \in Requesters : \E request \in DeleteRequests : Running /\ Delete(c, request)
  \/ \E id \in Callers : Running /\ LoginResolves(id) /\ PostsResume(id, "fulfilled")
  \/ \E id \in Callers : Running /\ LoginRejects(id) /\ PostsResume(id, "rejected")
  \/ Running /\ cleanupExpiredClients
  \/ Running /\ cleanupExpired
  \/ Running /\ shutdown
  \/ Running /\ Tick

SpecHttp == InitHttp /\ [][NextHttp]_vars


\* The caller's connection closing while the handler waits cancelling the login.
Abandon_CancelsLogin(c) ==
  /\ http[c].pc = "awaiting"
  /\ c \notin abandoned
  /\ abandoned' = abandoned \cup {c}
  /\ authPromises' = MapDelete(authPromises, calls[http[c].call].cacheKey)
  /\ UNCHANGED <<env, clock, clientCache, sessions, promises, calls, logoutCalls,
                 logoutThrew, clientCleanupTimer, expectedApiKey, sessionManager,
                 sessionCleanupTimer, http, shutdownLog, intervals>>

\* The caller of request c goes away while the handler waits at
\* await authenticateHttpRequest(authHeader). Neither the handler nor
\* authenticateHttpRequest listens for the connection closing or takes an abort
\* signal: nothing of the program's state changes.
Abandon(c) ==
  /\ http[c].pc = "awaiting"
  /\ c \notin abandoned
  /\ abandoned' = abandoned \cup {c}
  /\ UNCHANGED <<authVars, clientCleanupTimer, expectedApiKey, sessionManager,
                 sessionCleanupTimer, http, shutdownLog, intervals>>

\* The login of promise id completes, and the handlers that wait for it run on.
LoginSettles(id) ==
  \/ LoginResolves(id) /\ PostsResume(id, "fulfilled")
  \/ LoginRejects(id) /\ PostsResume(id, "rejected")

\* The server with callers that may go away. A login that is in flight completes,
\* one way or the other, unless the process exits first.
NextAbandon ==
  \/ \E c \in Requesters, throwsAtOnce \in BOOLEAN :
       \E request \in PostRequests : Running /\ Post(c, request, throwsAtOnce)
  \/ \E c \in Requesters : \E request \in GetRequests : Running /\ Get(c, request)
  \/ \E c \in Requesters : \E request \in DeleteRequests : Running /\ Delete(c, request)
  \/ \E c \in Requesters : Running /\ Abandon(c)
  \/ \E id \in Callers : Running /\ LoginResolves(id) /\ PostsResume(id, "fulfilled")
  \/ \E id \in Callers : Running /\ LoginRejects(id) /\ PostsResume(id, "rejected")
  \/ Running /\ cleanupExpiredClients
  \/ Running /\ cleanupExpired
  \/ Running /\ shutdown
  \/ Running /\ Tick

SpecAbandon ==
  /\ InitHttp
  /\ [][NextAbandon]_vars
  /\ \A id \in Callers : WF_vars(Running /\ LoginSettles(id))

\* What the start and stop functions of the two timers leave alone.
timerFrame == <<authVars, expectedApiKey, sessionManager, http, shutdownLog, abandoned>>

startClientCacheCleanup ==
  LET started == StartTimer(clientCleanupTimer, intervals.client) IN
  /\ clientCleanupTimer' = started.cleanupTimer
  /\ intervals' = [intervals EXCEPT !.client = started.set]
  /\ UNCHANGED <<sessionCleanupTimer, timerFrame>>

stopClientCacheCleanup ==
  LET stopped == StopTimer(clientCleanupTimer, intervals.client) IN
  /\ clientCleanupTimer' = stopped.cleanupTimer
  /\ intervals' = [intervals EXCEPT !.client = stopped.set]
  /\ UNCHANGED <<sessionCleanupTimer, timerFrame>>

startSessionCacheCleanup ==
  LET started == StartTimer(sessionCleanupTimer, intervals.session) IN
  /\ sessionCleanupTimer' = started.cleanupTimer
  /\ intervals' = [intervals EXCEPT !.session = started.set]
  /\ UNCHANGED <<clientCleanupTimer, timerFrame>>

stopSessionCacheCleanup ==
  LET stopped == StopTimer(sessionCleanupTimer, intervals.session) IN
  /\ sessionCleanupTimer' = stopped.cleanupTimer
  /\ intervals' = [intervals EXCEPT !.session = stopped.set]
  /\ UNCHANGED <<clientCleanupTimer, timerFrame>>

\* The modules are loaded and no timer has been started yet.
InitTimers ==
  /\ env \in [MCP_AUTH_TOKEN : {Undefined},
              SUNSAMA_EMAIL : {<<"svc">>},
              SUNSAMA_PASSWORD : {<<"svcpw">>}]
  /\ expectedApiKey = Undefined
  /\ clock = 0
  /\ clientCache = <<>>
  /\ sessions = <<>>
  /\ authPromises = <<>>
  /\ promises = <<>>
  /\ calls = [c \in Callers |-> IdleCall]
  /\ logoutCalls = [id \in Callers |-> 0]
  /\ logoutThrew = {}
  /\ clientCleanupTimer = FALSE
  /\ sessionManager = <<>>
  /\ sessionCleanupTimer = FALSE
  /\ http = [c \in Requesters |-> IdleHttp]
  /\ shutdownLog = <<>>
  /\ abandoned = {}
  /\ intervals = [client |-> 0, session |-> 0]

\* The server with the start and stop functions called at any time, any number
\* of times.
NextTimers ==
  \/ \E c \in Requesters, throwsAtOnce \in BOOLEAN :
       \E request \in PostRequests : Running /\ Post(c, request, throwsAtOnce)
  \/ \E c \in Requesters : \E request \in GetRequests : Running /\ Get(c, request)
  \/ \E c \in Requesters : \E request \in DeleteRequests : Running /\ Delete(c, request)
  \/ \E id \in Callers : Running /\ LoginResolves(id) /\ PostsResume(id, "fulfilled")
  \/ \E id \in Callers : Running /\ LoginRejects(id) /\ PostsResume(id, "rejected")
  \/ Running /\ startClientCacheCleanup
  \/ Running /\ stopClientCacheCleanup
  \/ Running /\ startSessionCacheCleanup
  \/ Running /\ stopSessionCacheCleanup
  \/ Running /\ cleanupExpiredClients
  \/ Running /\ cleanupExpired
  \/ Running /\ shutdown
  \/ Running /\ Tick

SpecTimers == InitTimers /\ [][NextTimers]_vars

\* ------------------------------------------------------------------ claims
Done(c) == calls[c].pc = "done"

TokenMethods == {"query", "bearer"}

T1 == <<"T1">>

InvalidToken == Failure("Invalid authentication token")

BasicAuthRequired == Failure("Basic Auth required")

ServiceCredentialsUnset ==
  Failure("SUNSAMA_EMAIL and SUNSAMA_PASSWORD must be set when using token authentication")

\* The validity of a cache entry at time now, as the specification states it.
Fresh(entry, now) ==
  /\ now - entry.lastAccessedAt < CLIENT_IDLE_TIMEOUT
  /\ now - entry.createdAt < CLIENT_MAX_LIFETIME

Cached(id) == \E k \in DOMAIN clientCache : clientCache[k] = id

SameBasicCredentials(a, b) ==
  LET pa == parseBasicAuth(calls[a].authHeader)
      pb == parseBasicAuth(calls[b].authHeader)
  IN pa.ok /\ pb.ok /\ pa.email = pb.email /\ pa.password = pb.password

\* The call presents the token, as query token or as Bearer header.
Presents(c, token) ==
  /\ calls[c].pc # "idle"
  /\ \/ calls[c].queryToken = token
     \/ calls[c].queryToken = <<>> /\ calls[c].authHeader = <<"Bearer ">> \o token

\* Call b began while the login that call a issued was in flight.
During(a, b) ==
  /\ a # b
  /\ calls[a].issued # 0
  /\ calls[a].issued \in calls[b].joined

\* C1: Basic Auth calls with the same (email, password) that begin while the
\* login issued by the first of them is in flight issue no login of their own
\* (exactly one login is issued), and all of them end with the same outcome:
\* the same SessionData on success, the same error on failure.
C1_BasicSingleFlight ==
  \A a, b \in Callers :
    ( /\ calls[a].method = "basic" /\ calls[b].method = "basic"
      /\ SameBasicCredentials(a, b)
      /\ During(a, b) )
    => /\ calls[b].issued = 0
       /\ calls[b].joined = {calls[a].issued}
       /\ Done(b) => /\ Done(a)
                     /\ calls[b].result = calls[a].result
                     /\ calls[b].error = calls[a].error
                     /\ calls[b].result # 0 => calls[b].result = calls[a].issued

C1_Witness ==
  \E a, b \in Callers :
    /\ calls[a].method = "basic" /\ calls[b].method = "basic"
    /\ SameBasicCredentials(a, b)
    /\ During(a, b)
    /\ Done(a) /\ Done(b)
    /\ calls[a].result # 0 /\ calls[b].result = calls[a].result

\* C2: with MCP_AUTH_TOKEN = T1, calls that present T1 (query token or Bearer
\* header, in any mix) pass the token check; those that begin while the service
\* login issued by the first of them is in flight issue no login (the service
\* login is invoked once), and when that login succeeds all of them return the one
\* SessionData it created, logged in with the service credentials and stored
\* under the token key.
C2_TokenSingleFlight ==
  env.MCP_AUTH_TOKEN = T1 =>
    \A a, b \in Callers :
      (Presents(a, T1) /\ Presents(b, T1)) =>
        /\ calls[a].method \in TokenMethods
        /\ calls[a].error # InvalidToken
        /\ During(a, b) =>
             LET id == calls[a].issued IN
             /\ calls[b].issued = 0
             /\ promises[id].cacheKey = getTokenCacheKey(T1)
             /\ Done(b) => Done(a) /\ calls[b].error = calls[a].error
             /\ promises[id].state = "fulfilled" =>
                  /\ Done(a) /\ Done(b)
                  /\ calls[a].result = id /\ calls[b].result = id
                  /\ sessions[id].email = env.SUNSAMA_EMAIL
                  /\ logoutCalls[id] = 0 =>
                       /\ getTokenCacheKey(T1) \in DOMAIN clientCache
                       /\ clientCache[getTokenCacheKey(T1)] = id

C2_Witness ==
  /\ env.MCP_AUTH_TOKEN = T1
  /\ \E a, b \in Callers :
       /\ Presents(a, T1) /\ Presents(b, T1)
       /\ calls[a].method = "query" /\ calls[b].method = "bearer"
       /\ During(a, b)
       /\ Done(a) /\ Done(b)
       /\ calls[a].result = calls[a].issued /\ calls[b].result = calls[a].issued
       /\ Cached(calls[a].issued)

\* C3: once the login of a pending authentication has completed, with success
\* or with any failure, no pending authentication remains registered for its
\* key: every registered promise belongs to a login that is still in flight.
C3_PendingAuthRemovedOnCompletion ==
  \A k \in DOMAIN authPromises : promises[authPromises[k]].state = "pending"

\* C8: every entry of the client cache has lastAccessedAt >= createdAt.
C8_AccessedNotBeforeCreated ==
  \A k \in DOMAIN clientCache :
    sessions[clientCache[k]].lastAccessedAt >= sessions[clientCache[k]].createdAt

C8_Witness ==
  \E k \in DOMAIN clientCache :
    /\ sessions[clientCache[k]].lastAccessedAt > sessions[clientCache[k]].createdAt
    /\ \E c \in Callers : Done(c) /\ calls[c].awaiting # 0 /\ calls[c].result = clientCache[k]

\* C9: with MCP_AUTH_TOKEN configured the credential is selected in the order
\* query token, Bearer header, Basic header, and the first one present decides:
\* a query token makes the call a query-token authentication whatever the
\* header holds (an invalid one fails the call with the invalid-token error and
\* no login, even beside valid Basic credentials), and a Bearer header makes it
\* a Bearer authentication, never a Basic one.
C9_FixedPriority ==
  env.MCP_AUTH_TOKEN # <<>> =>
    \A c \in Callers :
      calls[c].pc # "idle" =>
        /\ calls[c].queryToken # <<>> =>
             /\ calls[c].method = "query"
             /\ calls[c].cacheKey \in {<<>>, getTokenCacheKey(calls[c].queryToken)}
             /\ calls[c].queryToken # env.MCP_AUTH_TOKEN =>
                  /\ Done(c)
                  /\ calls[c].error = InvalidToken
                  /\ calls[c].result = 0 /\ calls[c].issued = 0 /\ calls[c].awaiting = 0
        /\ (calls[c].queryToken = <<>> /\ StartsWith(calls[c].authHeader, "Bearer ")) =>
             /\ calls[c].method = "bearer"
             /\ calls[c].cacheKey \in
                  {<<>>, getTokenCacheKey(Tail(calls[c].authHeader))}
        /\ (calls[c].queryToken = <<>> /\ StartsWith(calls[c].authHeader, "Basic ")) =>
             calls[c].method = "basic"

C9_Witness ==
  /\ env.MCP_AUTH_TOKEN # <<>>
  /\ \E c \in Callers :
       /\ Done(c)
       /\ calls[c].queryToken = <<"bad">>
       /\ parseBasicAuth(calls[c].authHeader).ok
       /\ calls[c].error = InvalidToken
  /\ \E c \in Callers :
       /\ Done(c)
       /\ calls[c].queryToken = <<>>
       /\ StartsWith(calls[c].authHeader, "Bearer ")
       /\ calls[c].result # 0


\* The call begins in this step (its synchronous run is the step).
Begins(c) == calls[c].pc = "idle" /\ calls'[c].pc # "idle"

\* The call returns or throws in this step.
Ends(c) == calls[c].pc # "done" /\ calls'[c].pc = "done"

\* C4: when the login of a pending authentication fails, every call that waits
\* on it ends with that login's error, no call is left waiting, the failure
\* leaves the client cache as it was and the cache holds no entry for the key;
\* when it succeeds, the entry is in the cache under the key when the calls
\* receive it.
C4_FailureSharedSuccessCached ==
  [][ /\ \A c \in Callers :
           (Ends(c) /\ calls'[c].awaiting # 0) =>
             LET id == calls'[c].awaiting
                 key == calls'[c].cacheKey
             IN IF promises'[id].state = "rejected"
                THEN /\ calls'[c].error = LoginError(id)
                     /\ calls'[c].result = 0
                     /\ key \notin DOMAIN clientCache'
                     /\ id \in DOMAIN promises => clientCache' = clientCache
                ELSE /\ promises'[id].state = "fulfilled"
                     /\ calls'[c].error = NoError
                     /\ calls'[c].result = id
                     /\ key \in DOMAIN clientCache'
                     /\ clientCache'[key] = id
      /\ \A c \in Callers :
           calls'[c].pc = "awaiting" => promises'[calls'[c].awaiting].state = "pending"
    ]_vars

C4_Witness ==
  \E a, b \in Callers :
    /\ During(a, b)
    /\ Done(a) /\ Done(b)
    /\ calls[a].error = LoginError(calls[a].issued)
    /\ calls[b].error = calls[a].error
    /\ calls[a].cacheKey \notin DOMAIN clientCache
    /\ \E c \in Callers : Done(c) /\ calls[c].awaiting # 0 /\ calls[c].result # 0

\* C5: a call that finds a cache entry for its key reuses it if and only if
\* now - lastAccessedAt < IDLE_TIMEOUT and now - createdAt < MAX_LIFETIME;
\* otherwise the entry's client is logged out, the entry is removed and the call
\* goes on as on a cache miss: it issues a new login (on the token path a miss
\* with the service credentials unset fails instead).
C5_LazyExpiryOnRead ==
  [][ \A c \in Callers :
        LET key == calls'[c].cacheKey IN
        ( /\ Begins(c)
          /\ key # <<>>
          /\ key \notin DOMAIN authPromises
          /\ key \in DOMAIN clientCache ) =>
          LET old == clientCache[key] IN
          IF Fresh(sessions[old], clock)
          THEN /\ Done(c)'
               /\ calls'[c].result = old
               /\ calls'[c].issued = 0
               /\ clientCache' = clientCache
               /\ logoutCalls' = logoutCalls
               /\ promises' = promises
          ELSE /\ calls'[c].result = 0
               /\ logoutCalls'[old] = logoutCalls[old] + 1
               /\ key \notin DOMAIN clientCache'
               /\ \/ /\ calls'[c].issued = Len(promises) + 1
                     /\ Len(promises') = Len(promises) + 1
                     /\ promises'[Len(promises')].cacheKey = key
                  \/ /\ calls'[c].method \in TokenMethods
                     /\ env.SUNSAMA_EMAIL = <<>>
                     /\ calls'[c].error = ServiceCredentialsUnset
                     /\ promises' = promises
    ]_vars

\* An entry last accessed IDLE_TIMEOUT ago (and younger than MAX_LIFETIME) is
\* found by a call, which logs it out, removes it and logs in again.
C5_Witness ==
  \E c \in Callers :
    /\ calls[c].evicted # 0
    /\ calls[c].issued # 0
    /\ promises[calls[c].issued].state = "pending"
    /\ promises[calls[c].issued].now - sessions[calls[c].evicted].lastAccessedAt
         >= CLIENT_IDLE_TIMEOUT
    /\ promises[calls[c].issued].now - sessions[calls[c].evicted].createdAt
         < CLIENT_MAX_LIFETIME
    /\ logoutCalls[calls[c].evicted] = 1
    /\ \E r \in Callers : r # c /\ Done(r) /\ calls[r].awaiting = 0
                          /\ calls[r].result # 0

\* C6: right after a sweep at time now the client cache holds no entry idle for
\* IDLE_TIMEOUT or more and no entry older than MAX_LIFETIME or as old, however
\* recently accessed, and every entry valid at now is still in the cache.
C6_SweepRemovesExactlyExpired ==
  [][ cleanupExpiredClients =>
        /\ \A k \in DOMAIN clientCache' : Fresh(sessions'[clientCache'[k]], clock')
        /\ \A k \in DOMAIN clientCache :
             Fresh(sessions[clientCache[k]], clock) =>
               k \in DOMAIN clientCache' /\ clientCache'[k] = clientCache[k]
    ]_vars

\* A sweep has removed an entry that was accessed less than IDLE_TIMEOUT ago and
\* created MAX_LIFETIME ago, and has kept a valid one.
C6_Witness ==
  /\ \E id \in DOMAIN sessions :
       /\ logoutCalls[id] = 1
       /\ ~Cached(id)
       /\ \A c \in Callers : calls[c].evicted # id
       /\ clock - sessions[id].lastAccessedAt < CLIENT_IDLE_TIMEOUT
       /\ clock - sessions[id].createdAt >= CLIENT_MAX_LIFETIME
  /\ \E k \in DOMAIN clientCache : Fresh(sessions[clientCache[k]], clock)

\* The method of the request a call was given.
RequestMethod(call) ==
  IF env.MCP_AUTH_TOKEN # <<>> /\ call.queryToken # <<>> THEN "query"
  ELSE IF env.MCP_AUTH_TOKEN # <<>> /\ StartsWith(call.authHeader, "Bearer ")
  THEN "bearer"
  ELSE "basic"

\* C7: reusing a valid cached entry, on either path, sets its lastAccessedAt to
\* the current time and its authMethod to the method of the request, and leaves
\* its createdAt, email and client handle (and every other entry) unchanged.
C7_ReuseTouchesOnly ==
  [][ \A c \in Callers :
        (Begins(c) /\ Done(c)' /\ calls'[c].result # 0) =>
          LET id == calls'[c].result IN
          /\ id \in DOMAIN sessions
          /\ sessions'[id].lastAccessedAt = clock
          /\ sessions'[id].authMethod = RequestMethod(calls'[c])
          /\ sessions'[id].createdAt = sessions[id].createdAt
          /\ sessions'[id].email = sessions[id].email
          /\ sessions'[id].sunsamaClient = sessions[id].sunsamaClient
          /\ \A other \in DOMAIN sessions \ {id} : sessions'[other] = sessions[other]
          /\ DOMAIN sessions' = DOMAIN sessions
    ]_vars

\* An entry created by a query-token call was reused later by a Bearer call.
C7_Witness ==
  \E a, b \in Callers :
    /\ Done(a) /\ Done(b)
    /\ calls[a].issued # 0 /\ calls[a].method = "query"
    /\ calls[b].awaiting = 0 /\ calls[b].result = calls[a].issued
    /\ calls[b].method = "bearer"
    /\ sessions[calls[b].result].authMethod = "bearer"
    /\ sessions[calls[b].result].lastAccessedAt > sessions[calls[b].result].createdAt

\* C10: with MCP_AUTH_TOKEN not configured, a call without a Basic header (no
\* Authorization header, a Bearer header, a query token only) is rejected with
\* "Basic Auth required"; it issues no login and changes neither the client
\* cache nor the pending authentications.
C10_BasicAuthRequired ==
  [][ \A c \in Callers :
        ( /\ env.MCP_AUTH_TOKEN = <<>>
          /\ Begins(c)
          /\ ~StartsWith(calls'[c].authHeader, "Basic ") ) =>
          /\ Done(c)'
          /\ calls'[c].error = BasicAuthRequired
          /\ calls'[c].result = 0 /\ calls'[c].issued = 0 /\ calls'[c].awaiting = 0
          /\ UNCHANGED <<clientCache, authPromises, promises, sessions, logoutCalls>>
    ]_vars

C10_Witness ==
  /\ env.MCP_AUTH_TOKEN = <<>>
  /\ \E a, b, c \in Callers :
       /\ Done(a) /\ Done(b) /\ Done(c)
       /\ calls[a].authHeader = <<"Bearer ", "T1">> /\ calls[a].queryToken = <<>>
       /\ calls[b].authHeader = <<>> /\ calls[b].queryToken = <<>>
       /\ calls[c].authHeader = <<>> /\ calls[c].queryToken = T1
       /\ calls[a].error = BasicAuthRequired
       /\ calls[b].error = BasicAuthRequired
       /\ calls[c].error = BasicAuthRequired

\* The token a request presents: the query token, else the Bearer header's.
PresentedToken(call) ==
  IF call.queryToken # <<>> THEN call.queryToken
  ELSE IF StartsWith(call.authHeader, "Bearer ") THEN parseBearerToken(call.authHeader)
  ELSE <<>>

\* C11: with MCP_AUTH_TOKEN configured, a call whose token (query token, else
\* Bearer header) differs from the configured one is rejected with "Invalid
\* authentication token" in the run in which it begins, in whatever state it
\* begins: it issues no login, awaits none, and leaves the client cache, the
\* pending authentications and the SessionData objects as they were.
C11_InvalidTokenRejected ==
  [][ \A c \in Callers :
        ( /\ env.MCP_AUTH_TOKEN # <<>>
          /\ Begins(c)
          /\ PresentedToken(calls'[c]) # <<>>
          /\ PresentedToken(calls'[c]) # env.MCP_AUTH_TOKEN ) =>
          /\ Done(c)'
          /\ calls'[c].error = InvalidToken
          /\ calls'[c].result = 0 /\ calls'[c].issued = 0 /\ calls'[c].awaiting = 0
          /\ UNCHANGED <<clientCache, authPromises, promises, sessions, logoutCalls>>
    ]_vars

\* A Bearer call and a query call with the token "bad" were rejected while the
\* login issued for the valid token was still in flight.
C11_Witness ==
  /\ env.MCP_AUTH_TOKEN = T1
  /\ \E a, b, c \in Callers :
       /\ a < b /\ b < c
       /\ Presents(a, T1) /\ calls[a].issued # 0
       /\ promises[calls[a].issued].state = "pending"
       /\ getTokenCacheKey(T1) \in DOMAIN authPromises
       /\ Done(b) /\ calls[b].authHeader = <<"Bearer ", "bad">> /\ calls[b].queryToken = <<>>
       /\ Done(c) /\ calls[c].queryToken = <<"bad">>
       /\ calls[b].error = InvalidToken /\ calls[c].error = InvalidToken

AuthenticationRequired ==
  Failure("Authentication required: provide token in query parameter (?token=xxx), Bearer header, or Basic Auth")

\* The request carries none of the three credential forms.
NoCredentialForm(call) ==
  /\ call.queryToken = <<>>
  /\ ~StartsWith(call.authHeader, "Bearer ")
  /\ ~StartsWith(call.authHeader, "Basic ")

\* C12: with MCP_AUTH_TOKEN configured, every call that carries no query token,
\* no Bearer header and no Basic header, its Authorization header absent or of
\* another scheme, is rejected with the error that names the accepted forms
\* ("Authentication required: provide token in query parameter (?token=xxx),
\* Bearer header, or Basic Auth").
C12_NoCredentialsNamesAcceptedForms ==
  env.MCP_AUTH_TOKEN # <<>> =>
    \A c \in Callers :
      (calls[c].pc # "idle" /\ NoCredentialForm(calls[c])) =>
        Done(c) /\ calls[c].error = AuthenticationRequired

\* C13: the cache key of a token credential and the cache key of a Basic Auth
\* (email, password) pair are never equal, so a Basic Auth call never awaits the
\* pending authentication or returns the cache entry that a token call created,
\* nor a token call those of a Basic Auth call.
C13_SchemesUseDisjointKeys ==
  \A a, b \in Callers :
    ( /\ calls[a].method = "basic" /\ calls[a].cacheKey # <<>>
      /\ calls[b].method \in TokenMethods /\ calls[b].cacheKey # <<>> ) =>
      /\ calls[a].cacheKey # calls[b].cacheKey
      /\ calls[a].issued # 0 => /\ calls[b].awaiting # calls[a].issued
                                 /\ calls[b].result # calls[a].issued
      /\ calls[b].issued # 0 => /\ calls[a].awaiting # calls[b].issued
                                 /\ calls[a].result # calls[b].issued

\* The (email, password) pair of a Basic Auth call.
BasicTuple(call) ==
  LET parsed == parseBasicAuth(call.authHeader)
  IN <<parsed.email, parsed.password>>

OnBasicPath(c) == calls[c].method = "basic" /\ calls[c].cacheKey # <<>>

OnTokenPath(c) == calls[c].method \in TokenMethods /\ calls[c].cacheKey # <<>>

\* Tokens next to the configured one.
SomeTokens == {<<"T1">>, <<"T", "1">>, <<"T1", "T1">>, <<"bad">>, <<"token", ":", "T1">>}

\* C14: the key of a Basic Auth call is a function of its (email, password)
\* pair, the same in every call, and two calls with distinct pairs have distinct
\* keys (the digest taken as injective); likewise the key of a token call is a
\* function of its token and differs from the key of every other token.
C14_KeysDeterministicAndInjective ==
  /\ \A a, b \in Callers :
       (OnBasicPath(a) /\ OnBasicPath(b)) =>
         (calls[a].cacheKey = calls[b].cacheKey
            <=> BasicTuple(calls[a]) = BasicTuple(calls[b]))
  /\ \A a, b \in Callers :
       (OnTokenPath(a) /\ OnTokenPath(b)) =>
         (calls[a].cacheKey = calls[b].cacheKey
            <=> PresentedToken(calls[a]) = PresentedToken(calls[b]))
  /\ \A a \in Callers, token \in SomeTokens :
       OnTokenPath(a) =>
         (calls[a].cacheKey = getTokenCacheKey(token)
            <=> PresentedToken(calls[a]) = token)

\* Calls with the pairs (a, bc) and (ab, c), whose concatenations are equal, have
\* got distinct keys, and a second call with (a, bc) the key of the first.
C14_Witness ==
  \E a, b, c \in Callers :
    /\ OnBasicPath(a) /\ OnBasicPath(b) /\ OnBasicPath(c)
    /\ a # c
    /\ BasicTuple(calls[a]) = << <<"a">>, <<"b", "c">> >>
    /\ BasicTuple(calls[b]) = << <<"a", "b">>, <<"c">> >>
    /\ BasicTuple(calls[c]) = BasicTuple(calls[a])
    /\ calls[a].cacheKey # calls[b].cacheKey
    /\ calls[c].cacheKey = calls[a].cacheKey


\* The SessionData objects that authenticateHttpRequest has returned so far.
ReturnedSessionData ==
  {SessionDataRef(calls[a].result) :
     a \in {b \in Callers : calls[b].pc = "done" /\ calls[b].result # 0}}

\* C15: every session the HTTP transport has created holds a SessionData object
\* (with a logged-in client) that authenticateHttpRequest returned, whether or
\* not MCP_API_KEY is set.
C15_SessionsHoldAuthenticatedData ==
  \A sessionId \in DOMAIN sessionManager :
    sessionManager[sessionId].sessionData \in ReturnedSessionData


\* The client handles whose logout was called, and those whose logout threw, in
\* the step.
LoggedOutInStep == {id \in Callers : logoutCalls'[id] > logoutCalls[id]}

ThrewInStep == logoutThrew' \ logoutThrew

\* The cache keys whose entry is gone, or replaced, after the step.
RemovedInStep ==
  {cacheKey \in DOMAIN clientCache :
     cacheKey \notin DOMAIN clientCache' \/ clientCache'[cacheKey] # clientCache[cacheKey]}

ExpiredKeys ==
  {cacheKey \in DOMAIN clientCache : ~isClientValid(sessions[clientCache[cacheKey]])}

\* C16: in a sweep, a shutdown clear or a lazy expiry on read where a logout
\* throws, the entry whose logout threw is removed all the same, every other
\* entry the operation is to process is logged out and removed too, and the
\* call that triggered a lazy expiry goes on to start its login, its outcome
\* being that of the login.
C16_ThrowingLogoutStillEvicts ==
  [][ThrewInStep # {} =>
       /\ \A cacheKey \in DOMAIN clientCache :
            clientCache[cacheKey] \in LoggedOutInStep => cacheKey \in RemovedInStep
       /\ IF shutdownLog' # shutdownLog
          THEN /\ clientCache' = <<>>
               /\ \A cacheKey \in DOMAIN clientCache :
                    clientCache[cacheKey] \in LoggedOutInStep
          ELSE IF calls' = calls
          THEN /\ ExpiredKeys \subseteq RemovedInStep
               /\ \A cacheKey \in ExpiredKeys : clientCache[cacheKey] \in LoggedOutInStep
          ELSE \E c \in Callers :
                 /\ calls[c].pc = "idle"
                 /\ calls'[c].evicted \in ThrewInStep
                 /\ calls'[c].issued = Len(promises')
                 /\ Len(promises') = Len(promises) + 1
                 /\ \/ calls'[c].pc = "awaiting" /\ calls'[c].awaiting = calls'[c].issued
                    \/ calls'[c].pc = "done" /\ calls'[c].error = LoginError(calls'[c].issued)
  ]_vars

\* The logout of an expired client threw on a read, and the call that read it
\* has started its login; the entry is gone.
C16_Witness ==
  \E c \in Callers :
    /\ calls[c].evicted \in logoutThrew
    /\ calls[c].issued # 0
    /\ calls[c].pc = "awaiting"
    /\ \A cacheKey \in DOMAIN clientCache : clientCache[cacheKey] # calls[c].evicted


\* C17: whenever an entry leaves the client cache (sweep, lazy expiry on read,
\* shutdown clear), logout has been called on its client handle in the same
\* operation, and no client handle ever has logout called more than once.
C17_LogoutBeforeRemovalAtMostOnce ==
  [][/\ \A cacheKey \in RemovedInStep : clientCache[cacheKey] \in LoggedOutInStep
     /\ \A id \in Callers : logoutCalls'[id] <= 1
  ]_vars

\* One client was removed by a lazy expiry and another one afterwards by the
\* sweep or the shutdown clear, each logged out once.
C17_Witness ==
  \E c \in Callers, id \in Callers :
    /\ calls[c].evicted # 0
    /\ id # calls[c].evicted
    /\ logoutCalls[calls[c].evicted] = 1
    /\ logoutCalls[id] = 1
    /\ ~Cached(id) /\ ~Cached(calls[c].evicted)


\* The position of a step in the order shutdown calls its steps.
StepIndex(log, step) == CHOOSE i \in DOMAIN log : log[i] = step

\* C18: when the shutdown handler has run, both cleanup timers are stopped, the
\* session map and the client cache are empty, every client that was in the
\* cache has had logout called, and the sessions were drained before the
\* clients.
C18_ShutdownDrainsBothLayers ==
  [][shutdownLog = <<>> /\ shutdownLog' # <<>> =>
       /\ ~clientCleanupTimer' /\ ~sessionCleanupTimer'
       /\ sessionManager' = <<>>
       /\ clientCache' = <<>>
       /\ \A cacheKey \in DOMAIN clientCache : logoutCalls'[clientCache[cacheKey]] = 1
       /\ StepIndex(shutdownLog', "sessionManager.cleanupAll")
            < StepIndex(shutdownLog', "cleanupAllClients")
  ]_vars

\* Shutdown has run before any client could expire, after a session was created
\* and a client was logged in.
C18_Witness ==
  /\ shutdownLog # <<>>
  /\ clock = 0
  /\ \E c \in Requesters : http[c].created # Undefined
  /\ \E id \in Callers : id \in DOMAIN sessions /\ logoutCalls[id] = 1


\* Request c gets its response in the step.
Responds(c) == http[c].pc # "done" /\ http'[c].pc = "done"

\* The request has passed authentication: its API key was accepted, or
\* authenticateHttpRequest returned a client for it.
PassedAuthentication(request) ==
  \/ expectedApiKey # Undefined /\ request.apiKey = expectedApiKey
  \/ request.call # 0 /\ calls'[request.call].result # 0

\* C19: a session is only ever created by a POST without a session id that is an
\* initialize request and has passed authentication, and it is registered under
\* the id the server generated for it; a request that supplies an id the session
\* manager does not hold is rejected and creates and replaces no session.
C19_SessionsCreatedOnlyByInitialize ==
  [][/\ \A sessionId \in DOMAIN sessionManager' \ DOMAIN sessionManager :
          \E c \in Requesters :
            /\ Responds(c)
            /\ http'[c].verb = "POST"
            /\ http'[c].sessionId = Undefined
            /\ http'[c].isInitialize
            /\ PassedAuthentication(http'[c])
            /\ sessionId = randomUUID(c)
            /\ http'[c].created = sessionId
     /\ \A sessionId \in DOMAIN sessionManager' \cap DOMAIN sessionManager :
          sessionManager'[sessionId] = sessionManager[sessionId]
     /\ \A c \in Requesters :
          /\ Responds(c)
          /\ http'[c].sessionId # Undefined
          /\ ~hasSession(http'[c].sessionId)
          => /\ http'[c].status \in {400, 401, 403, 404}
             /\ DOMAIN sessionManager' \subseteq DOMAIN sessionManager
             /\ ForgedSessionId \notin DOMAIN sessionManager'
  ]_vars

\* An initialize request under a made-up session id was rejected, and another
\* initialize request has created a session under a generated id.
C19_Witness ==
  \E b, c \in Requesters :
    /\ http[b].pc = "done" /\ http[b].verb = "POST"
    /\ http[b].sessionId = ForgedSessionId /\ http[b].isInitialize
    /\ http[b].status = 404
    /\ http[c].created = randomUUID(c)
    /\ http[c].call # 0
    /\ hasSession(randomUUID(c))


\* Request c, which names a session id the session manager does not hold, gets
\* its response in the step.
NamesUnknownSession(c) ==
  /\ Responds(c)
  /\ http'[c].sessionId # Undefined
  /\ ~hasSession(http'[c].sessionId)

\* The session-not-found outcome of each endpoint, which is not the outcome of a
\* failed authentication; nothing is authenticated and no session is created.
SessionNotFoundOutcome(c) ==
  /\ http'[c].status = IF http'[c].verb = "POST" THEN 404 ELSE 400
  /\ http'[c].status # AuthenticationFailed.status
  /\ http'[c].message # AuthenticationFailed.message
  /\ http'[c].message \notin {"API key required (X-MCP-API-Key)", "Invalid API key"}
  /\ http'[c].call = 0
  /\ UNCHANGED authVars
  /\ UNCHANGED sessionManager

\* C20 as stated: every request that names a session id the session manager does
\* not hold gets the session-not-found outcome, on POST, GET and DELETE, with no
\* authentication and no session creation.
C20_UnknownSessionNotFound ==
  [][\A c \in Requesters : NamesUnknownSession(c) => SessionNotFoundOutcome(c)]_vars

\* C20 amended: the same for every such request that the API-key middleware
\* lets through (MCP_API_KEY unset, or the request carries the key).
C20_UnknownSessionNotFoundBehindApiKey ==
  [][\A c \in Requesters :
       NamesUnknownSession(c) /\ apiKeyMiddleware(http'[c]) = CallsNext
       => SessionNotFoundOutcome(c)]_vars

\* A request named a session that had been created and was removed since, and
\* got the session-not-found outcome of its endpoint.
C20_Witness ==
  \E b, c \in Requesters :
    /\ b # c
    /\ http[b].created # Undefined
    /\ http[c].pc = "done"
    /\ http[c].sessionId = http[b].created
    /\ http[c].status = IF http[c].verb = "POST" THEN 404 ELSE 400
    /\ http[c].message \in {"Session expired or invalid", "Invalid or missing session ID"}


\* The kind of failure an error of authenticateHttpRequest stands for.
FailureKind(error) ==
  IF error.login # 0 THEN "upstream login failure"
  ELSE IF error.message \in {"Basic Auth required", AuthenticationRequired.message}
  THEN "missing credentials"
  ELSE IF error.message \in {"Invalid Basic Auth format", "Invalid Bearer token format"}
  THEN "malformed credentials"
  ELSE IF error.message = "Invalid authentication token" THEN "invalid credentials"
  ELSE "other"

\* Initialize request c was answered after its authentication failed.
FailedInitialize(c) ==
  /\ http[c].pc = "done" /\ http[c].verb = "POST"
  /\ http[c].isInitialize /\ http[c].sessionId = Undefined
  /\ http[c].call # 0
  /\ calls[http[c].call].error # NoError

\* C21: two initialize requests that failed for different reasons (missing,
\* malformed or invalid credentials, upstream login failure) got responses that
\* differ.
C21_FailuresDistinguishable ==
  \A b, c \in Requesters :
    /\ FailedInitialize(b) /\ FailedInitialize(c)
    /\ FailureKind(calls[http[b].call].error) # FailureKind(calls[http[c].call].error)
    => <<http[b].status, http[b].message>> # <<http[c].status, http[c].message>>


\* The requests that get a session created, and those whose DELETE the transport
\* accepts, in the step.
CreatesInStep == {c \in Requesters : Responds(c) /\ http'[c].created # Undefined}

ClosesInStep ==
  {c \in Requesters : Responds(c) /\ http'[c].verb = "DELETE" /\ http'[c].status = 200}

\* C22: a session removed through the transport's close callback is no longer
\* held, and getSessionCount is the exact number of live sessions: it goes up by
\* one for each session created and down by one for each one closed, a TTL sweep
\* or the shutdown drain only takes sessions away, and the sessions counted are
\* the sessions created and not removed since.
C22_RemovedGoneAndCountExact ==
  [][/\ \A c \in ClosesInStep :
          /\ hasSession(http'[c].sessionId)
          /\ http'[c].sessionId \notin DOMAIN sessionManager'
     /\ IF http' # http
        THEN getSessionCount' =
               getSessionCount + Cardinality(CreatesInStep) - Cardinality(ClosesInStep)
        ELSE DOMAIN sessionManager' \subseteq DOMAIN sessionManager
     /\ getSessionCount' =
          Cardinality({c \in Requesters : /\ http'[c].created # Undefined
                                          /\ http'[c].created \in DOMAIN sessionManager'})
  ]_vars

\* A session that one request created was closed by the DELETE of another, and
\* is not held any more.
C22_Witness ==
  \E b, c \in Requesters :
    /\ http[b].created # Undefined
    /\ http[c].pc = "done" /\ http[c].verb = "DELETE" /\ http[c].status = 200
    /\ http[c].sessionId = http[b].created
    /\ ~hasSession(http[b].created)
    /\ getSessionCount = 0


\* The login that the call of request c waits for.
AwaitedLogin(c) == calls[http[c].call].awaiting

\* The caller of request c went away while its login was in flight.
AbandonedInFlight(c) ==
  /\ c \in abandoned
  /\ http[c].pc = "awaiting"
  /\ promises[AwaitedLogin(c)].state = "pending"

\* Client id was logged in for a request whose caller had gone away.
LoggedInForAbandoned(id) ==
  \E c \in abandoned : http[c].call # 0 /\ calls[http[c].call].issued = id

\* C23: a caller going away while its login is in flight cancels nothing: the
\* step changes no state of the authenticator; the login completes (unless the
\* process exits first); when it does, its pending authentication is removed
\* and, on success, its client is in the cache; and the next call for the key
\* returns that client without a login of its own.
C23_AbandonedLoginCompletes ==
  /\ [][/\ abandoned' # abandoned => UNCHANGED <<authVars, sessionManager, http>>
        /\ \A c \in Requesters :
             AbandonedInFlight(c) /\ promises'[AwaitedLogin(c)].state # "pending" =>
               LET id == AwaitedLogin(c)
                   cacheKey == promises[id].cacheKey
               IN /\ cacheKey \notin DOMAIN authPromises'
                  /\ promises'[id].state = "fulfilled" =>
                       cacheKey \in DOMAIN clientCache' /\ clientCache'[cacheKey] = id
        /\ \A a \in Callers :
             /\ Begins(a)
             /\ calls'[a].cacheKey \in DOMAIN clientCache
             /\ LoggedInForAbandoned(clientCache[calls'[a].cacheKey])
             /\ isClientValid(sessions[clientCache[calls'[a].cacheKey]])
             => /\ calls'[a].pc = "done"
                /\ calls'[a].result = clientCache[calls'[a].cacheKey]
                /\ calls'[a].issued = 0
                /\ promises' = promises
     ]_vars
  /\ \A c \in Requesters :
       AbandonedInFlight(c) ~> (~AbandonedInFlight(c) \/ ~Running)

\* A login whose requester had gone away has succeeded, and a later request for
\* the same key got its client from the cache.
C23_Witness ==
  \E b, c \in Requesters :
    /\ b \in abandoned /\ c \notin abandoned
    /\ http[b].call # 0 /\ http[c].call # 0
    /\ calls[http[b].call].issued # 0
    /\ calls[http[c].call].result = calls[http[b].call].issued
    /\ calls[http[c].call].issued = 0
    /\ calls[http[c].call].joined = {}


\* The logins in flight for keys other than cacheKey.
InFlightForOthers(cacheKey) ==
  {id \in DOMAIN promises :
     promises[id].state = "pending" /\ promises[id].cacheKey # cacheKey}

\* Call c begins in the step, for a key that has no login in flight, while a
\* login for another key is in flight.
BeginsBesideOtherLogin(c) ==
  /\ Begins(c)
  /\ calls'[c].cacheKey # <<>>
  /\ InFlight(calls'[c].cacheKey) = {}
  /\ InFlightForOthers(calls'[c].cacheKey) # {}

\* The call does not wait for a login of another key.
WaitsOnlyForOwnKey(c) ==
  calls'[c].awaiting # 0 => promises'[calls'[c].awaiting].cacheKey = calls'[c].cacheKey

\* The call returns the valid cached client of its key at once.
ReturnsCachedAtOnce(c) ==
  /\ HasValidCached(calls'[c].cacheKey)
  /\ calls'[c].pc = "done"
  /\ calls'[c].result = clientCache[calls'[c].cacheKey]

\* The call starts a login of its own, beside the logins in flight.
StartsOwnLogin(c) ==
  /\ calls'[c].issued = Len(promises')
  /\ Len(promises') = Len(promises) + 1
  /\ \A id \in InFlightForOthers(calls'[c].cacheKey) : promises'[id].state = "pending"

\* The call fails in the run it began in, and starts no login.
FailsAtOnce(c) ==
  /\ calls'[c].pc = "done"
  /\ calls'[c].error # NoError
  /\ calls'[c].issued = 0
  /\ promises' = promises

\* C24 as stated: while a login for one key is in flight, a call for another key
\* is never made to wait for it: it returns the valid cached client of its own
\* key at once, or it starts a login of its own, which runs beside the other one.
C24_UnrelatedKeysNotSerialized ==
  [][\A c \in Callers :
       BeginsBesideOtherLogin(c) =>
         /\ WaitsOnlyForOwnKey(c)
         /\ ReturnsCachedAtOnce(c) \/ StartsOwnLogin(c)
  ]_vars

\* C24 amended: such a call is never made to wait for the other key's login: it
\* returns its cached client at once, starts a login of its own beside the
\* other one, or fails at once.
C24_UnrelatedKeysNeverWait ==
  [][\A c \in Callers :
       BeginsBesideOtherLogin(c) =>
         /\ WaitsOnlyForOwnKey(c)
         /\ ReturnsCachedAtOnce(c) \/ StartsOwnLogin(c) \/ FailsAtOnce(c)
  ]_vars

\* Two calls for different keys wait, each for the login it started, and both
\* logins are in flight.
C24_Witness ==
  \E a, b \in Callers :
    /\ calls[a].pc = "awaiting" /\ calls[b].pc = "awaiting"
    /\ calls[a].cacheKey # calls[b].cacheKey
    /\ calls[a].issued = calls[a].awaiting /\ calls[b].issued = calls[b].awaiting
    /\ promises[calls[a].issued].state = "pending"
    /\ promises[calls[b].issued].state = "pending"
    /\ calls[a].joined = {} /\ calls[b].joined = {}


\* How a timer may change in a step: not at all, from stopped to one interval
\* set, or from set to no interval.
TimerStep(cleanupTimer, set, cleanupTimerNext, setNext) ==
  \/ cleanupTimerNext = cleanupTimer /\ setNext = set
  \/ ~cleanupTimer /\ cleanupTimerNext /\ setNext = 1
  \/ cleanupTimer /\ ~cleanupTimerNext /\ setNext = 0

\* The step is a sweep of the client cache, or of the sessions: entries go
\* without a call, a request or the shutdown handler having run.
ClientSweepStep ==
  RemovedInStep # {} /\ calls' = calls /\ shutdownLog' = shutdownLog

SessionSweepStep ==
  /\ DOMAIN sessionManager' # DOMAIN sessionManager
  /\ http' = http /\ shutdownLog' = shutdownLog

\* C25: each cleanup timer has at most one interval set however often its start
\* function is called; a stop clears it, and from then on no sweep is performed
\* until a start sets it again; a stop with no timer set, like a start with the
\* timer set, changes nothing.
C25_TimersSingleAndStoppable ==
  [][/\ intervals'.client = (IF clientCleanupTimer' THEN 1 ELSE 0)
     /\ intervals'.session = (IF sessionCleanupTimer' THEN 1 ELSE 0)
     /\ TimerStep(clientCleanupTimer, intervals.client,
                  clientCleanupTimer', intervals'.client)
     /\ TimerStep(sessionCleanupTimer, intervals.session,
                  sessionCleanupTimer', intervals'.session)
     /\ ClientSweepStep => clientCleanupTimer
     /\ SessionSweepStep => sessionCleanupTimer
  ]_vars

\* The client-cache timer has swept a client out and has been stopped since,
\* while the session timer is set.
C25_Witness ==
  /\ Running
  /\ ~clientCleanupTimer /\ intervals.client = 0
  /\ sessionCleanupTimer /\ intervals.session = 1
  /\ \E id \in Callers :
       /\ logoutCalls[id] = 1
       /\ ~Cached(id)
       /\ \A c \in Callers : calls[c].evicted # id


\* The credential form the dispatcher selects for the call is a header that
\* does not parse.
UnparsableHeader(call) ==
  LET branch == AuthBranch(getMcpAuthToken, call.authHeader, call.queryToken)
      credentials == Base64Decode(Replace(call.authHeader, "Basic "))
  IN
  \/ branch = "basic" /\ IndexOf(credentials, ":") \in {0, 1}
  \/ branch = "bearer" /\ Replace(call.authHeader, "Bearer ") = <<>>

\* C26: a call whose credential header is present and does not parse (Basic
\* without a colon or with an empty email, Bearer with an empty token) fails in
\* the run it began in, before the caches are touched: no login is started, no
\* pending authentication is registered, no client is logged out, and the client
\* cache and its entries are as they were.
C26_MalformedFailsBeforeCache ==
  [][\A c \in Callers :
       Begins(c) /\ UnparsableHeader(calls'[c]) =>
         /\ calls'[c].pc = "done"
         /\ calls'[c].error \in {Failure("Invalid Basic Auth format"),
                                 Failure("Invalid Bearer token format")}
         /\ calls'[c].result = 0
         /\ calls'[c].issued = 0 /\ calls'[c].awaiting = 0 /\ calls'[c].evicted = 0
         /\ UNCHANGED <<clientCache, sessions, authPromises, promises, logoutCalls>>
  ]_vars

\* Calls with each of the three unparsable headers have failed while a client
\* was cached or a login was in flight, and nothing was started for them.
C26_Witness ==
  \E a, b \in Callers :
    /\ Done(a) /\ Done(b)
    /\ UnparsableHeader(calls[a]) /\ UnparsableHeader(calls[b])
    /\ calls[a].error = Failure("Invalid Basic Auth format")
    /\ calls[b].error = Failure("Invalid Bearer token format")
    /\ DOMAIN clientCache # {} \/ DOMAIN authPromises # {}
    /\ \A id \in DOMAIN promises : id \notin {calls[a].issued, calls[b].issued}


\* The keys under which a promise is registered, and those under which a client
\* is inserted, in the step.
RegisteredInStep ==
  {cacheKey \in DOMAIN authPromises' :
     cacheKey \notin DOMAIN authPromises \/ authPromises'[cacheKey] # authPromises[cacheKey]}

InsertedInStep ==
  {cacheKey \in DOMAIN clientCache' :
     cacheKey \notin DOMAIN clientCache \/ clientCache'[cacheKey] # clientCache[cacheKey]}

\* C27: no key ever has both a registered pending authentication and an entry in
\* the client cache: a pending authentication is registered only with no entry
\* under the key, and the step that inserts the entry of a login is the step
\* that removes its pending authentication.
C27_NeverPendingAndCached ==
  /\ [](DOMAIN authPromises \cap DOMAIN clientCache = {})
  /\ [][/\ \A cacheKey \in RegisteredInStep : cacheKey \notin DOMAIN clientCache'
        /\ \A cacheKey \in InsertedInStep :
             /\ cacheKey \in DOMAIN authPromises
             /\ authPromises[cacheKey] = clientCache'[cacheKey]
             /\ cacheKey \notin DOMAIN authPromises'
     ]_vars

\* One login has completed and its client is cached with no pending
\* authentication left, while a login for another key is registered.
C27_Witness ==
  \E cached \in DOMAIN clientCache, pending \in DOMAIN authPromises :
    /\ promises[clientCache[cached]].state = "fulfilled"
    /\ promises[clientCache[cached]].cacheKey = cached
    /\ promises[authPromises[pending]].state = "pending"
    /\ cached \notin DOMAIN authPromises
    /\ pending \notin DOMAIN clientCache


\* C28: while the server is not shutting down, no session held by the session
\* manager references a client on which logout has been called.
C28_SessionsReferenceLiveClients ==
  Running =>
    \A sessionId \in DOMAIN sessionManager :
      LET ref == sessionManager[sessionId].sessionData.ref IN
      ref # 0 => logoutCalls[ref] = 0

====
